---- MODULE Spec2Model ----
(***************************************************************************)
(* The file-set merge engine of the tsi1 inverted index:                   *)
(*   - FileSet.TagValueSeriesIDIterator (tombstone-resolved series sets),  *)
(*   - the k-way merge iterators over metrics, tag keys and tag values     *)
(*     and their tombstone-unaware adapters,                               *)
(*   - the structural operations PrependLogFile and MustReplace,           *)
(*   - the once-guarded Close of the FileSet-attached iterator wrappers.   *)
(* Go slices are 0-based and newest-first; the sequences here are 1-based, *)
(* so files[1] is the newest file (Go index 0).                            *)
(***************************************************************************)
EXTENDS Integers, Sequences, FiniteSets, TLC

VARIABLES
    tvFiles,    \* fs.files as seen by TagValueSeriesIDIterator
    tvItr,      \* what the call returned: [state, ids]
    mFiles,     \* per file: what its Metric/TagKey/TagValue iterator holds
    mKind,      \* which of the three merge iterators is in use
    mVia,       \* "none", "merge" (merged iterator used directly), "adapter"
    mItr,       \* the merge iterator: [nil, itrs, pos, buf, e]
    mHist,      \* the groups the merge iterator has returned, in order
    mOut,       \* the keys the adapter has returned, in order
    mRet,       \* the last value returned to the caller
    fsHeap,     \* every FileSet allocated so far: [levels, sfile, files]
    fsNextFile, \* the number of the next File to be created
    fsLast,     \* the last PrependLogFile / MustReplace call and its outcome
    cKind,      \* which FileSet-attached wrapper is being closed
    cOnce,      \* its sync.Once: [done, m (0, or the goroutine holding it)]
    cPc,        \* where each goroutine is inside Close
    cCalls,     \* the Close calls each goroutine has completed
    cRefs,      \* the reference count of each file of the attached FileSet
    cReleases,  \* how often fs.Release() has run
    cInner,     \* how often the inner iterator's Close has run
    rHeap,      \* readers and compactor: every FileSet allocated so far
    rActive,    \* the index's current FileSet (an index into rHeap)
    rRefs,      \* the reference count of each File, by file number
    rBase,      \* each File's count apart from the readers' references
    rPending,   \* superseded files the compactor has still to release
    rReaders,   \* per reader: [pc, fs (the snapshot held), reads]
    rLog,       \* per FileSet: [retains, releases] calls made on it
    sHeap,      \* snapshot reads: every FileSet allocated so far
    sContent,   \* what each File holds, by file number
    sSnap,      \* the reader's snapshot S (an index into sHeap), 0: none yet
    sBase,      \* the file list S had when the reader took it
    sItr,       \* the merged iterator the reader has open on S
    sHist,      \* what that iterator has returned: [group, at]
    nArgs,      \* newSeriesCursor's arguments: [cond, metrics, indexErr]
    nRet,       \* what newSeriesCursor returned: [called, cursor, err, asked]
    kIndex,     \* seriesCursor: what the index set resolves each metric to
    kMitr,      \* cur.mitr: [kind, files, list, pos, itr, closes]
    kCur,       \* the cursor: [keys, ofs, row, done (its sync.Once)]
    kOut,       \* per Next call: [row, err, batch (the row's), exhausted]
    kBatches,   \* the metrics pulled from cur.mitr and the keys read for each
    kCloses,    \* what each Close call returned
    kPanic,     \* the panic that ended the caller, if any
    xFiles,     \* MetricTagKeysByExpr: the metric's tag keys, file by file
    xExpr,      \* the expression handed to it
    xRet,       \* what it returned: [called, nil, keys, err]
    lFiles,     \* point lookups: what each file holds for the name / key / value
    lRet,       \* the last lookup: [op, key, elem (Metric), has (HasTag...)]
    gLevels,    \* LastContiguousIndexFilesByLevel: the Level() of each file of the FileSet
    gRet,       \* the last call: [op, level, run (files returned), panic]
    pElem,      \* tagKeyMergeElem p: per constituent [deleted, values]
    pItr,       \* the iterator p.TagValueIterator() returned
    pHist,      \* the groups that iterator has returned, in order
    pRet,       \* the last return: "none", "itr", "group" or "nil"
    eOp,        \* aggregation over the files: which FileSet operation is called
    eFiles,     \* what each file's calls return: [key, tv, tomb, sk]
    eRet,       \* what the operation returned: [called, nil, ids, s, t, err]
    wInner,     \* newFileSetSeriesIDIterator: the inner iterator handed in
    wItr,       \* the wrapper returned: [kind, done (its sync.Once)]
    wRefs,      \* the reference count of each file of the retained FileSet
    wCalls,     \* the calls made so far: "new", then "Next", "Close", "SeriesIDSet"
    wReleasedAt,\* the positions in wCalls of the calls that ran fs.Release()
    zHeap,      \* files and their counts: every FileSet allocated so far
    zRefs,      \* the reference count of each File, by file number
    zClosed,    \* the Files that have been closed
    zLast       \* the last NewFileSet / PrependLogFile / MustReplace call: [op, refs and closed before it, panic]

tvVars == <<tvFiles, tvItr>>

mVars == <<mFiles, mKind, mVia, mItr, mHist, mOut, mRet>>

fsVars == <<fsHeap, fsNextFile, fsLast>>

cVars == <<cKind, cOnce, cPc, cCalls, cRefs, cReleases, cInner>>

rVars == <<rHeap, rActive, rRefs, rBase, rPending, rReaders, rLog>>

sVars == <<sHeap, sContent, sSnap, sBase, sItr, sHist>>

nVars == <<nArgs, nRet>>

kVars == <<kIndex, kMitr, kCur, kOut, kBatches, kCloses, kPanic>>

xVars == <<xFiles, xExpr, xRet>>

lVars == <<lFiles, lRet>>

gVars == <<gLevels, gRet>>

pVars == <<pElem, pItr, pHist, pRet>>

eVars == <<eOp, eFiles, eRet>>

wVars == <<wInner, wItr, wRefs, wCalls, wReleasedAt>>

zVars == <<zHeap, zRefs, zClosed, zLast>>

vars == <<tvFiles, tvItr, mFiles, mKind, mVia, mItr, mHist, mOut, mRet,
          fsHeap, fsNextFile, fsLast,
          cKind, cOnce, cPc, cCalls, cRefs, cReleases, cInner,
          rHeap, rActive, rRefs, rBase, rPending, rReaders, rLog,
          sHeap, sContent, sSnap, sBase, sItr, sHist,
          nArgs, nRet,
          kIndex, kMitr, kCur, kOut, kBatches, kCloses, kPanic,
          xFiles, xExpr, xRet,
          lFiles, lRet,
          gLevels, gRet,
          pElem, pItr, pHist, pRet,
          eOp, eFiles, eRet,
          wInner, wItr, wRefs, wCalls, wReleasedAt,
          zHeap, zRefs, zClosed, zLast>>

-----------------------------------------------------------------------------
(* Bounds and input sets.                                                  *)

\* Longest file list handed to TagValueSeriesIDIterator.
MaxTVFiles == 2

\* The series ids of the tag-value scenario (older file holds {1,2,3}).
SeriesIDs == {1, 2, 3}

\* A *tsdb.SeriesIDSet result of a File call: nil, or a set of ids.
NilSet == [nil |-> TRUE, ids |-> {}]

SomeSet(s) == [nil |-> FALSE, ids |-> s]

\* One file, as far as (name, key, value) is concerned: the set its
\* TagValueSeriesIDSet returns (nil when the file has no such value) and
\* its tombstone set.
TVFile == [tv : {NilSet} \cup {SomeSet(s) : s \in SUBSET SeriesIDs},
           tomb : SUBSET SeriesIDs]

SeqsUpTo(S, n) == UNION {[1..k -> S] : k \in 0..n}

-----------------------------------------------------------------------------
(* tsdb.SeriesIDSet                                                        *)

\* SeriesIDSet.AndNot: the members of a that are not in b (a new set).
AndNot(a, b) == a \ b

\* SeriesIDSet.Merge: in-place union.
Merge(a, b) == a \cup b

-----------------------------------------------------------------------------
(* FileSet.TagValueSeriesIDIterator                                        *)

File_TagValueSeriesIDSet(f) == f.tv

File_TombstoneSeriesIDSet(f) == SomeSet(f.tomb)

\* One pass of the loop body `for i := len(fs.files) - 1; i >= 0; i--` with
\* the running set ss and the tombstone set ftss of the previous pass.
RECURSIVE TagValueLoop(_, _, _, _)
TagValueLoop(files, i, ss, ftss) ==
    IF i < 1 THEN ss
    ELSE LET f    == files[i]
             ss1  == IF ~ftss.nil /\ Cardinality(ftss.ids) > 0
                     THEN AndNot(ss, ftss.ids) ELSE ss
             fss  == File_TagValueSeriesIDSet(f)
             ss2  == IF ~fss.nil THEN Merge(ss1, fss.ids) ELSE ss1
         IN  TagValueLoop(files, i - 1, ss2, File_TombstoneSeriesIDSet(f))

\* Mutant: the previous file's tombstones are removed after this file's set
\* has been merged, so they also hit what this file contributes.
RECURSIVE TagValueLoopLate(_, _, _, _)
TagValueLoopLate(files, i, ss, ftss) ==
    IF i < 1 THEN ss
    ELSE LET f    == files[i]
             fss  == File_TagValueSeriesIDSet(f)
             ss1  == IF ~fss.nil THEN Merge(ss, fss.ids) ELSE ss
             ss2  == IF ~ftss.nil /\ Cardinality(ftss.ids) > 0
                     THEN AndNot(ss1, ftss.ids) ELSE ss1
         IN  TagValueLoopLate(files, i - 1, ss2, File_TombstoneSeriesIDSet(f))

TagValueSeriesIDIteratorLate(files) ==
    TagValueLoopLate(files, Len(files), {}, NilSet)

\* The set behind the iterator the call returns.
TagValueSeriesIDIterator(files) ==
    TagValueLoop(files, Len(files), {}, NilSet)

\* A caller asks for the series of (name, key, value).
CallTagValueSeriesIDIterator ==
    /\ tvItr.state = "none"
    /\ tvItr' = [state |-> "returned", ids |-> TagValueSeriesIDIterator(tvFiles)]
    /\ UNCHANGED tvFiles
    /\ UNCHANGED mVars
    /\ UNCHANGED fsVars
    /\ UNCHANGED <<cVars, rVars, sVars, nVars, kVars, xVars, lVars, gVars, pVars, eVars, wVars, zVars>>

-----------------------------------------------------------------------------
(* Claims about TagValueSeriesIDIterator.                                  *)

\* File i contributes series s for (name, key, value).
Contributes(i, s) == ~tvFiles[i].tv.nil /\ s \in tvFiles[i].tv.ids

Tombstones(i, s) == s \in tvFiles[i].tomb

\* The scenario of the tag-value tombstone test: files [newer, older], the
\* older one holds {1,2,3}, the newer one holds nothing and tombstones {2}.
TombstoneScenario ==
    /\ Len(tvFiles) = 2
    /\ tvFiles[1].tv.ids = {} /\ tvFiles[1].tomb = {2}
    /\ tvFiles[2].tv = SomeSet({1, 2, 3}) /\ tvFiles[2].tomb = {}

\* C1: a series that an older file contributes and a strictly newer file
\* tombstones, and that neither the tombstoning file nor a newer one
\* contributes again, is not in the result; in the scenario above the
\* result is exactly {1,3}.
C1_TombstonedExcluded ==
    tvItr.state = "returned" =>
        /\ \A s \in SeriesIDs :
              \A o \in 1..Len(tvFiles) : \A n \in 1..(o - 1) :
                  ( /\ Contributes(o, s)
                    /\ Tombstones(n, s)
                    /\ \A m \in 1..n : ~Contributes(m, s) )
                  => s \notin tvItr.ids
        /\ TombstoneScenario => tvItr.ids = {1, 3}

\* C2: a series contributed by a file F that neither F nor any newer file
\* tombstones is in the result, whatever older files tombstone.
C2_UntombstonedIncluded ==
    tvItr.state = "returned" =>
        \A s \in SeriesIDs : \A i \in 1..Len(tvFiles) :
            ( /\ Contributes(i, s)
              /\ \A m \in 1..i : ~Tombstones(m, s) )
            => s \in tvItr.ids

\* C2 witness: the call returned a series that the newer file contributes
\* and only the older file tombstones.
C2_Witness ==
    /\ tvItr.state = "returned"
    /\ Len(tvFiles) = 2
    /\ \E s \in SeriesIDs :
          /\ Contributes(1, s) /\ ~Tombstones(1, s)
          /\ Tombstones(2, s)
          /\ s \in tvItr.ids

-----------------------------------------------------------------------------
(* Merge iterators: elements, keys and sources.                            *)

\* Longest file list a merged iterator is opened on.
MaxMergeFiles == 2

\* The names / keys / values ([]byte) the files hold, as byte sequences.
Keys == {<<1>>, <<1, 2>>, <<2>>}

\* A []byte variable that may be nil (`var name []byte`).
NilBytes == [nil |-> TRUE, b |-> <<>>]

SomeBytes(b) == [nil |-> FALSE, b |-> b]

\* bytes.Compare: -1, 0 or 1 by lexicographic byte order.
RECURSIVE BytesCompare(_, _)
BytesCompare(a, b) ==
    IF a = <<>> /\ b = <<>> THEN 0
    ELSE IF a = <<>> THEN -1
    ELSE IF b = <<>> THEN 1
    ELSE IF Head(a) < Head(b) THEN -1
    ELSE IF Head(a) > Head(b) THEN 1
    ELSE BytesCompare(Tail(a), Tail(b))

\* The nil element (end of iteration, empty buffer slot).
NoElem == [nil |-> TRUE, file |-> 0, key |-> <<>>, deleted |-> FALSE]

\* A MetricElem / TagKeyElem / TagValueElem of file number f: its
\* Name() / Key() / Value() bytes and its Deleted() flag.
Elem(f, k, d) == [nil |-> FALSE, file |-> f, key |-> k, deleted |-> d]

\* The keys of S in increasing byte order.
RECURSIVE SortKeys(_)
SortKeys(S) ==
    IF S = {} THEN <<>>
    ELSE LET lo == CHOOSE k \in S : \A o \in S : BytesCompare(k, o) <= 0
         IN  <<lo>> \o SortKeys(S \ {lo})

\* What one file's iterator yields: nothing at all (a nil iterator), or its
\* elements in increasing key order, each deleted or not.
FileElems(S, D) ==
    LET ks == SortKeys(S)
    IN  [i \in 1..Len(ks) |-> [key |-> ks[i], deleted |-> ks[i] \in D]]

MergeFile == {[nil |-> TRUE, elems |-> <<>>]} \cup
             UNION {{[nil |-> FALSE, elems |-> FileElems(S, D)] : D \in SUBSET S} :
                       S \in SUBSET Keys}

\* A per-file iterator: the file it reads and its elements.
FileIterator(files, f) == [file |-> f, elems |-> files[f].elems]

\* `for _, f := range fs.files { itr := f.XIterator(); if itr != nil {...} }`:
\* the non-nil per-file iterators, in file order.
RECURSIVE FileIterators(_, _)
FileIterators(files, f) ==
    IF f > Len(files) THEN <<>>
    ELSE IF files[f].nil THEN FileIterators(files, f + 1)
    ELSE <<FileIterator(files, f)>> \o FileIterators(files, f + 1)

\* Next() of a per-file iterator that has yielded pos elements: the next
\* element, or nil (again and again) once it is exhausted.
SourceNext(src, pos) ==
    IF pos < Len(src.elems)
    THEN Elem(src.file, src.elems[pos + 1].key, src.elems[pos + 1].deleted)
    ELSE NoElem

\* The nil iterator MergeXIterators returns for no sources.
NilItr == [nil |-> TRUE, itrs |-> <<>>, pos |-> <<>>, buf |-> <<>>, e |-> <<>>]

-----------------------------------------------------------------------------
(* metricMergeIterator                                                     *)

MergeMetricIterators(itrs) ==
    IF Len(itrs) = 0 THEN NilItr
    ELSE [nil  |-> FALSE,
          itrs |-> itrs,
          pos  |-> [i \in 1..Len(itrs) |-> 0],
          buf  |-> [i \in 1..Len(itrs) |-> NoElem],
          e    |-> <<>>]

FileSet_MetricIterator(files) == MergeMetricIterators(FileIterators(files, 1))

\* Mutant: the comparison is inverted, so the highest buffered name wins.
RECURSIVE MetricFillBuffersHighest(_, _, _)
MetricFillBuffersHighest(itr, i, name) ==
    IF i > Len(itr.buf) THEN [itr |-> itr, low |-> name]
    ELSE LET empty == itr.buf[i].nil
             buf   == IF empty THEN SourceNext(itr.itrs[i], itr.pos[i])
                      ELSE itr.buf[i]
         IN  IF buf.nil THEN MetricFillBuffersHighest(itr, i + 1, name)
             ELSE LET filled == [itr EXCEPT
                                   !.buf[i] = buf,
                                   !.pos[i] = IF empty THEN @ + 1 ELSE @]
                      higher == name.nil \/ BytesCompare(filled.buf[i].key, name.b) = 1
                  IN  MetricFillBuffersHighest(filled, i + 1,
                          IF higher THEN SomeBytes(filled.buf[i].key) ELSE name)

\* The first loop of Next from slot i on: fill the empty buffers and find
\* the lowest name.
RECURSIVE MetricFillBuffers(_, _, _)
MetricFillBuffers(itr, i, name) ==
    IF i > Len(itr.buf) THEN [itr |-> itr, low |-> name]
    ELSE LET empty == itr.buf[i].nil
             buf   == IF empty THEN SourceNext(itr.itrs[i], itr.pos[i])
                      ELSE itr.buf[i]
         IN  IF buf.nil THEN MetricFillBuffers(itr, i + 1, name)
             ELSE LET filled == [itr EXCEPT
                                   !.buf[i] = buf,
                                   !.pos[i] = IF empty THEN @ + 1 ELSE @]
                      lower  == name.nil \/ BytesCompare(filled.buf[i].key, name.b) = -1
                  IN  MetricFillBuffers(filled, i + 1,
                          IF lower THEN SomeBytes(filled.buf[i].key) ELSE name)

\* metricMergeIterator.Next: [itr |-> the iterator afterwards,
\* ret |-> the group returned (<<>> stands for the nil MetricElem)].
MetricMergeNext(itr) ==
    LET f == MetricFillBuffers(itr, 1, NilBytes)
    IN  IF f.low.nil THEN [itr |-> f.itr, nil |-> TRUE, ret |-> <<>>]
        ELSE LET hit(b) == ~(b.nil \/ b.key # f.low.b)
                 e      == SelectSeq(f.itr.buf, hit)
                 buf    == [i \in 1..Len(f.itr.buf) |->
                               IF hit(f.itr.buf[i]) THEN NoElem ELSE f.itr.buf[i]]
             IN  [itr |-> [f.itr EXCEPT !.e = e, !.buf = buf],
                  nil |-> FALSE, ret |-> e]

\* metricMergeElem.Name
MetricMergeElem_Name(p) == IF Len(p) = 0 THEN NilBytes ELSE SomeBytes(p[1].key)

\* Mutant: a group counts as deleted when any constituent is.
MetricMergeElem_DeletedAny(p) == \E i \in 1..Len(p) : p[i].deleted

\* Mutant: the flag of the last (oldest) element decides.
MetricMergeElem_DeletedOldest(p) == IF Len(p) = 0 THEN FALSE ELSE p[Len(p)].deleted

\* metricMergeElem.Deleted
MetricMergeElem_Deleted(p) == IF Len(p) = 0 THEN FALSE ELSE p[1].deleted

\* Mutant: deleted groups are returned like any other.
MetricAdapterNextNoSkip(itr, pulled) ==
    LET n == MetricMergeNext(itr)
    IN  IF n.nil
        THEN [itr |-> n.itr, pulled |-> pulled, ret |-> NilBytes, err |-> "nil"]
        ELSE [itr |-> n.itr, pulled |-> Append(pulled, n.ret),
              ret |-> MetricMergeElem_Name(n.ret), err |-> "nil"]

\* tsdbMetricIteratorAdapter.Next: skip deleted groups. Returns the merge
\* iterator afterwards, the groups pulled from it, the name returned (nil
\* at the end) and the error.
RECURSIVE MetricAdapterNext(_, _)
MetricAdapterNext(itr, pulled) ==
    LET n == MetricMergeNext(itr)
    IN  IF n.nil
        THEN [itr |-> n.itr, pulled |-> pulled, ret |-> NilBytes, err |-> "nil"]
        ELSE IF MetricMergeElem_Deleted(n.ret)
        THEN MetricAdapterNext(n.itr, Append(pulled, n.ret))
        ELSE [itr |-> n.itr, pulled |-> Append(pulled, n.ret),
              ret |-> MetricMergeElem_Name(n.ret), err |-> "nil"]

-----------------------------------------------------------------------------
(* tagKeyMergeIterator                                                     *)

MergeTagKeyIterators(itrs) ==
    IF Len(itrs) = 0 THEN NilItr
    ELSE [nil  |-> FALSE,
          itrs |-> itrs,
          pos  |-> [i \in 1..Len(itrs) |-> 0],
          buf  |-> [i \in 1..Len(itrs) |-> NoElem],
          e    |-> <<>>]

FileSet_TagKeyIterator(files) == MergeTagKeyIterators(FileIterators(files, 1))

\* The first loop of Next from slot i on: fill the empty buffers and find
\* the lowest key.
RECURSIVE TagKeyFillBuffers(_, _, _)
TagKeyFillBuffers(itr, i, key) ==
    IF i > Len(itr.buf) THEN [itr |-> itr, low |-> key]
    ELSE LET empty == itr.buf[i].nil
             buf   == IF empty THEN SourceNext(itr.itrs[i], itr.pos[i])
                      ELSE itr.buf[i]
         IN  IF buf.nil THEN TagKeyFillBuffers(itr, i + 1, key)
             ELSE LET filled == [itr EXCEPT
                                   !.buf[i] = buf,
                                   !.pos[i] = IF empty THEN @ + 1 ELSE @]
                      lower  == key.nil \/ BytesCompare(filled.buf[i].key, key.b) = -1
                  IN  TagKeyFillBuffers(filled, i + 1,
                          IF lower THEN SomeBytes(filled.buf[i].key) ELSE key)

\* Mutant: only the first source with the lowest key enters the group; the
\* buffers of the others are cleared all the same.
TagKeyMergeNextFirstOnly(itr) ==
    LET f == TagKeyFillBuffers(itr, 1, NilBytes)
    IN  IF f.low.nil THEN [itr |-> f.itr, nil |-> TRUE, ret |-> <<>>]
        ELSE LET hit(b) == ~(b.nil \/ b.key # f.low.b)
                 e      == SubSeq(SelectSeq(f.itr.buf, hit), 1, 1)
                 buf    == [i \in 1..Len(f.itr.buf) |->
                               IF hit(f.itr.buf[i]) THEN NoElem ELSE f.itr.buf[i]]
             IN  [itr |-> [f.itr EXCEPT !.e = e, !.buf = buf],
                  nil |-> FALSE, ret |-> e]

\* tagKeyMergeIterator.Next: [itr |-> the iterator afterwards,
\* ret |-> the group returned (<<>> stands for the nil TagKeyElem)].
TagKeyMergeNext(itr) ==
    LET f == TagKeyFillBuffers(itr, 1, NilBytes)
    IN  IF f.low.nil THEN [itr |-> f.itr, nil |-> TRUE, ret |-> <<>>]
        ELSE LET hit(b) == ~(b.nil \/ b.key # f.low.b)
                 e      == SelectSeq(f.itr.buf, hit)
                 buf    == [i \in 1..Len(f.itr.buf) |->
                               IF hit(f.itr.buf[i]) THEN NoElem ELSE f.itr.buf[i]]
             IN  [itr |-> [f.itr EXCEPT !.e = e, !.buf = buf],
                  nil |-> FALSE, ret |-> e]

\* tagKeyMergeElem.Key
TagKeyMergeElem_Key(p) == IF Len(p) = 0 THEN NilBytes ELSE SomeBytes(p[1].key)

\* tagKeyMergeElem.Deleted
TagKeyMergeElem_Deleted(p) == IF Len(p) = 0 THEN FALSE ELSE p[1].deleted

\* tsdbTagKeyIteratorAdapter.Next: skip deleted groups. Returns the merge
\* iterator afterwards, the groups pulled from it, the key returned (nil
\* at the end) and the error.
RECURSIVE TagKeyAdapterNext(_, _)
TagKeyAdapterNext(itr, pulled) ==
    LET n == TagKeyMergeNext(itr)
    IN  IF n.nil
        THEN [itr |-> n.itr, pulled |-> pulled, ret |-> NilBytes, err |-> "nil"]
        ELSE IF TagKeyMergeElem_Deleted(n.ret)
        THEN TagKeyAdapterNext(n.itr, Append(pulled, n.ret))
        ELSE [itr |-> n.itr, pulled |-> Append(pulled, n.ret),
              ret |-> TagKeyMergeElem_Key(n.ret), err |-> "nil"]

-----------------------------------------------------------------------------
(* tagValueMergeIterator                                                     *)

MergeTagValueIterators(itrs) ==
    IF Len(itrs) = 0 THEN NilItr
    ELSE [nil  |-> FALSE,
          itrs |-> itrs,
          pos  |-> [i \in 1..Len(itrs) |-> 0],
          buf  |-> [i \in 1..Len(itrs) |-> NoElem],
          e    |-> <<>>]

\* Mutant: only the newest file's iterator is merged.
FileSet_TagValueIteratorNewestOnly(files) ==
    MergeTagValueIterators(FileIterators(SubSeq(files, 1, 1), 1))

FileSet_TagValueIterator(files) == MergeTagValueIterators(FileIterators(files, 1))

\* The first loop of Next from slot i on: fill the empty buffers and find
\* the lowest value.
RECURSIVE TagValueFillBuffers(_, _, _)
TagValueFillBuffers(itr, i, value) ==
    IF i > Len(itr.buf) THEN [itr |-> itr, low |-> value]
    ELSE LET empty == itr.buf[i].nil
             buf   == IF empty THEN SourceNext(itr.itrs[i], itr.pos[i])
                      ELSE itr.buf[i]
         IN  IF buf.nil THEN TagValueFillBuffers(itr, i + 1, value)
             ELSE LET filled == [itr EXCEPT
                                   !.buf[i] = buf,
                                   !.pos[i] = IF empty THEN @ + 1 ELSE @]
                      lower  == value.nil \/ BytesCompare(filled.buf[i].key, value.b) = -1
                  IN  TagValueFillBuffers(filled, i + 1,
                          IF lower THEN SomeBytes(filled.buf[i].key) ELSE value)

\* Mutant: the iteration ends as soon as one source is exhausted.
TagValueMergeNextStopEarly(itr) ==
    LET f == TagValueFillBuffers(itr, 1, NilBytes)
    IN  IF f.low.nil \/ \E i \in 1..Len(f.itr.buf) : f.itr.buf[i].nil
        THEN [itr |-> f.itr, nil |-> TRUE, ret |-> <<>>]
        ELSE LET hit(b) == ~(b.nil \/ b.key # f.low.b)
                 e      == SelectSeq(f.itr.buf, hit)
                 buf    == [i \in 1..Len(f.itr.buf) |->
                               IF hit(f.itr.buf[i]) THEN NoElem ELSE f.itr.buf[i]]
             IN  [itr |-> [f.itr EXCEPT !.e = e, !.buf = buf],
                  nil |-> FALSE, ret |-> e]

\* tagValueMergeIterator.Next: [itr |-> the iterator afterwards,
\* ret |-> the group returned (<<>> stands for the nil TagValueElem)].
TagValueMergeNext(itr) ==
    LET f == TagValueFillBuffers(itr, 1, NilBytes)
    IN  IF f.low.nil THEN [itr |-> f.itr, nil |-> TRUE, ret |-> <<>>]
        ELSE LET hit(b) == ~(b.nil \/ b.key # f.low.b)
                 e      == SelectSeq(f.itr.buf, hit)
                 buf    == [i \in 1..Len(f.itr.buf) |->
                               IF hit(f.itr.buf[i]) THEN NoElem ELSE f.itr.buf[i]]
             IN  [itr |-> [f.itr EXCEPT !.e = e, !.buf = buf],
                  nil |-> FALSE, ret |-> e]

\* tagValueMergeElem.Value
TagValueMergeElem_Value(p) == IF Len(p) = 0 THEN NilBytes ELSE SomeBytes(p[1].key)

\* tagValueMergeElem.Deleted
TagValueMergeElem_Deleted(p) == IF Len(p) = 0 THEN FALSE ELSE p[1].deleted

\* tsdbTagValueIteratorAdapter.Next: skip deleted groups. Returns the merge
\* iterator afterwards, the groups pulled from it, the value returned (nil
\* at the end) and the error.
RECURSIVE TagValueAdapterNext(_, _)
TagValueAdapterNext(itr, pulled) ==
    LET n == TagValueMergeNext(itr)
    IN  IF n.nil
        THEN [itr |-> n.itr, pulled |-> pulled, ret |-> NilBytes, err |-> "nil"]
        ELSE IF TagValueMergeElem_Deleted(n.ret)
        THEN TagValueAdapterNext(n.itr, Append(pulled, n.ret))
        ELSE [itr |-> n.itr, pulled |-> Append(pulled, n.ret),
              ret |-> TagValueMergeElem_Value(n.ret), err |-> "nil"]

-----------------------------------------------------------------------------
(* A caller of the merged iterators.                                       *)

MergeKinds == {"metric", "tagkey", "tagvalue"}

NoRet == [what |-> "none", group |-> <<>>, key |-> NilBytes, err |-> "nil"]

IdleMerge ==
    /\ mFiles = <<>>
    /\ mKind = "metric"
    /\ mVia = "none"
    /\ mItr = NilItr
    /\ mHist = <<>>
    /\ mOut = <<>>
    /\ mRet = NoRet

IdleTagValue ==
    /\ tvFiles = <<>>
    /\ tvItr = [state |-> "none", ids |-> {}]

\* fs.MetricIterator(), fs.TagKeyIterator(name) or fs.TagValueIterator(name, key).
FileSetIterator(kind, files) ==
    CASE kind = "metric"   -> FileSet_MetricIterator(files)
      [] kind = "tagkey"   -> FileSet_TagKeyIterator(files)
      [] kind = "tagvalue" -> FileSet_TagValueIterator(files)

\* The caller opens the merged iterator and uses it directly.
OpenMerged ==
    /\ mVia = "none"
    /\ mVia' = "merge"
    /\ mItr' = FileSetIterator(mKind, mFiles)
    /\ UNCHANGED <<mFiles, mKind, mHist, mOut, mRet>>
    /\ UNCHANGED tvVars
    /\ UNCHANGED fsVars
    /\ UNCHANGED <<cVars, rVars, sVars, nVars, kVars, xVars, lVars, gVars, pVars, eVars, wVars, zVars>>

\* The caller wraps the merged iterator in NewTSDBXIteratorAdapter (which
\* gives nil for a nil iterator).
OpenAdapter ==
    /\ mVia = "none"
    /\ mVia' = "adapter"
    /\ mItr' = FileSetIterator(mKind, mFiles)
    /\ UNCHANGED <<mFiles, mKind, mHist, mOut, mRet>>
    /\ UNCHANGED tvVars
    /\ UNCHANGED fsVars
    /\ UNCHANGED <<cVars, rVars, sVars, nVars, kVars, xVars, lVars, gVars, pVars, eVars, wVars, zVars>>

\* One Next() on the merged iterator, n its outcome.
MergedReturns(n) ==
    /\ mItr' = n.itr
    /\ mHist' = IF n.nil THEN mHist ELSE Append(mHist, n.ret)
    /\ mRet' = [what |-> IF n.nil THEN "nil" ELSE "group", group |-> n.ret,
                key |-> NilBytes, err |-> "nil"]
    /\ UNCHANGED <<mFiles, mKind, mVia, mOut>>
    /\ UNCHANGED tvVars
    /\ UNCHANGED fsVars
    /\ UNCHANGED <<cVars, rVars, sVars, nVars, kVars, xVars, lVars, gVars, pVars, eVars, wVars, zVars>>

MetricIteratorNext ==
    /\ mVia = "merge" /\ mKind = "metric" /\ ~mItr.nil
    /\ MergedReturns(MetricMergeNext(mItr))

TagKeyIteratorNext ==
    /\ mVia = "merge" /\ mKind = "tagkey" /\ ~mItr.nil
    /\ MergedReturns(TagKeyMergeNext(mItr))

TagValueIteratorNext ==
    /\ mVia = "merge" /\ mKind = "tagvalue" /\ ~mItr.nil
    /\ MergedReturns(TagValueMergeNext(mItr))

\* One Next() on the adapter, a its outcome.
AdapterReturns(a) ==
    /\ mItr' = a.itr
    /\ mHist' = mHist \o a.pulled
    /\ mOut' = IF a.ret.nil THEN mOut ELSE Append(mOut, a.ret.b)
    /\ mRet' = [what |-> "key", group |-> <<>>, key |-> a.ret, err |-> a.err]
    /\ UNCHANGED <<mFiles, mKind, mVia>>
    /\ UNCHANGED tvVars
    /\ UNCHANGED fsVars
    /\ UNCHANGED <<cVars, rVars, sVars, nVars, kVars, xVars, lVars, gVars, pVars, eVars, wVars, zVars>>

MetricAdapterCall ==
    /\ mVia = "adapter" /\ mKind = "metric" /\ ~mItr.nil
    /\ AdapterReturns(MetricAdapterNext(mItr, <<>>))

TagKeyAdapterCall ==
    /\ mVia = "adapter" /\ mKind = "tagkey" /\ ~mItr.nil
    /\ AdapterReturns(TagKeyAdapterNext(mItr, <<>>))

TagValueAdapterCall ==
    /\ mVia = "adapter" /\ mKind = "tagvalue" /\ ~mItr.nil
    /\ AdapterReturns(TagValueAdapterNext(mItr, <<>>))

-----------------------------------------------------------------------------
(* Claims about the merged iterators.                                      *)

\* Name() / Key() / Value() of a returned group.
GroupKey(g) ==
    CASE mKind = "metric"   -> MetricMergeElem_Name(g)
      [] mKind = "tagkey"   -> TagKeyMergeElem_Key(g)
      [] mKind = "tagvalue" -> TagValueMergeElem_Value(g)

\* Deleted() of a returned group.
GroupDeleted(g) ==
    CASE mKind = "metric"   -> MetricMergeElem_Deleted(g)
      [] mKind = "tagkey"   -> TagKeyMergeElem_Deleted(g)
      [] mKind = "tagvalue" -> TagValueMergeElem_Deleted(g)

\* File f holds an element for key k.
FileHas(f, k) ==
    ~mFiles[f].nil /\ \E i \in 1..Len(mFiles[f].elems) : mFiles[f].elems[i].key = k

FileDeleted(f, k) ==
    \E i \in 1..Len(mFiles[f].elems) :
        mFiles[f].elems[i].key = k /\ mFiles[f].elems[i].deleted

\* The newest file (lowest index) that holds k.
NewestWith(k) ==
    CHOOSE f \in 1..Len(mFiles) :
        FileHas(f, k) /\ \A o \in 1..(f - 1) : ~FileHas(o, k)

HeldKeys == {k \in Keys : \E f \in 1..Len(mFiles) : FileHas(f, k)}

\* The keys of the merged view that are not tombstoned, in order.
LiveKeys ==
    LET live(k) == ~FileDeleted(NewestWith(k), k)
    IN  SelectSeq(SortKeys(HeldKeys), live)

IsPrefix(a, b) == Len(a) <= Len(b) /\ \A i \in 1..Len(a) : a[i] = b[i]

\* C3: the Deleted flag of every group a merged Metric/TagKey/TagValue
\* iterator yields is the flag the newest file holding the group's key gives
\* that key, whatever older files say.
C3_DeletedOfNewest ==
    \A j \in 1..Len(mHist) :
        LET k == GroupKey(mHist[j])
        IN  /\ ~k.nil
            /\ k.b \in HeldKeys
            /\ GroupDeleted(mHist[j]) = FileDeleted(NewestWith(k.b), k.b)

\* C3 witness: one yielded group is deleted although an older constituent
\* is not, another is not deleted although an older constituent is.
C3_Witness ==
    /\ \E j \in 1..Len(mHist) :
          /\ Len(mHist[j]) = 2
          /\ mHist[j][1].deleted /\ ~mHist[j][2].deleted
          /\ GroupDeleted(mHist[j])
    /\ \E j \in 1..Len(mHist) :
          /\ Len(mHist[j]) = 2
          /\ ~mHist[j][1].deleted /\ mHist[j][2].deleted
          /\ ~GroupDeleted(mHist[j])

\* C4: the keys of the groups returned by successive Next() calls are
\* strictly increasing in byte order (sources are sorted).
C4_StrictlyIncreasing ==
    \A i \in 1..Len(mHist) : \A j \in (i + 1)..Len(mHist) :
        /\ ~GroupKey(mHist[i]).nil
        /\ ~GroupKey(mHist[j]).nil
        /\ BytesCompare(GroupKey(mHist[i]).b, GroupKey(mHist[j]).b) = -1

\* C4 witness: three groups were returned, drawn alternately from two
\* sources, one of them merged from both.
C4_Witness ==
    /\ mVia = "merge"
    /\ Len(mHist) = 3
    /\ \E j \in 1..3 : Len(mHist[j]) = 2
    /\ \E i, j \in 1..3 : i < j /\ mHist[i][1].file > mHist[j][1].file

\* C5: an adapter over a merged iterator returns exactly the keys whose
\* merged group is not deleted, in merged order, then (nil, nil); it never
\* returns an error.
C5_AdapterLiveKeys ==
    mVia = "adapter" =>
        /\ mRet.err = "nil"
        /\ IsPrefix(mOut, LiveKeys)
        /\ (mRet.what = "key" /\ mRet.key.nil) => mOut = LiveKeys
        /\ (mRet.what = "key" /\ ~mRet.key.nil) =>
               (Len(mOut) > 0 /\ mOut[Len(mOut)] = mRet.key.b)
        /\ \A j \in 1..Len(mHist) :
               GroupDeleted(mHist[j]) =>
                   \A i \in 1..Len(mOut) : mOut[i] # GroupKey(mHist[j]).b

\* C5 witness: the adapter reached the end after skipping a deleted group
\* that lies between two keys it returned.
C5_Witness ==
    /\ mVia = "adapter"
    /\ mRet.what = "key" /\ mRet.key.nil
    /\ Len(mOut) = 2
    /\ Len(mHist) = 3
    /\ GroupDeleted(mHist[2])

\* The constituents a group for key k is to have: one per file holding k,
\* in file order.
GroupOf(k) ==
    LET holders == SelectSeq([f \in 1..Len(mFiles) |-> f], LAMBDA f : FileHas(f, k))
    IN  [c \in 1..Len(holders) |-> Elem(holders[c], k, FileDeleted(holders[c], k))]

\* C27: each group a merged iterator returns holds exactly one constituent
\* from every source whose current element has the smallest outstanding
\* key, in source order, and none from another source; once the iterator
\* has returned nil every element of every source has appeared in exactly
\* one group, so the keys output are the union of the sources' keys.
C27_GroupsPartitionSources ==
    /\ \A j \in 1..Len(mHist) :
          /\ j <= Len(SortKeys(HeldKeys))
          /\ mHist[j] = GroupOf(SortKeys(HeldKeys)[j])
    /\ (mVia = "merge" /\ mRet.what = "nil") =>
          /\ Len(mHist) = Cardinality(HeldKeys)
          /\ {GroupKey(mHist[j]).b : j \in 1..Len(mHist)} = HeldKeys
          /\ \A f \in 1..Len(mFiles) : \A i \in 1..Len(mFiles[f].elems) :
                Cardinality({<<j, c>> \in (1..Len(mHist)) \X (1..Len(mFiles)) :
                                /\ c <= Len(mHist[j])
                                /\ mHist[j][c].file = f
                                /\ mHist[j][c].key = mFiles[f].elems[i].key}) = 1

\* A full iteration over two files returned a group of two constituents
\* and a group drawn from the older file alone.
C27_Witness ==
    /\ mVia = "merge"
    /\ mRet.what = "nil"
    /\ \E j \in 1..Len(mHist) : Len(mHist[j]) = 2
    /\ \E j \in 1..Len(mHist) : Len(mHist[j]) = 1 /\ mHist[j][1].file = 2

\* Every source is exhausted and every buffer is empty.
AllExhausted ==
    \A i \in 1..Len(mItr.itrs) :
        mItr.pos[i] = Len(mItr.itrs[i].elems) /\ mItr.buf[i].nil

\* A Next() call on the merged iterator returns nil exactly when as many
\* groups as there are distinct keys have been returned before it.
NilAfterAllGroups ==
    (mVia = "merge" /\ mVia' = "merge") =>
        ((mRet'.what = "nil") <=> (Len(mHist) = Cardinality(HeldKeys)))

\* C28: repeated Next() on a merged iterator over finite sources returns
\* nil after exactly as many groups as there are distinct keys across the
\* sources, only when every source is exhausted and every buffer is empty,
\* and on every later call.
C28_EndsAfterDistinctKeys ==
    /\ []((mVia = "merge" /\ mRet.what = "nil") =>
            (AllExhausted /\ Len(mHist) = Cardinality(HeldKeys)))
    /\ [][NilAfterAllGroups]_vars

\* The iterator returned nil after three groups from two sources.
C28_Witness ==
    /\ mVia = "merge"
    /\ mRet.what = "nil"
    /\ Len(mItr.itrs) = 2
    /\ Len(mHist) = 3

-----------------------------------------------------------------------------
(* FileSet: NewFileSet, PrependLogFile, MustReplace.                       *)
(* A File is a pointer; a file number stands for its identity. The heap    *)
(* fsHeap holds every FileSet object allocated so far.                     *)

\* Most files handed to NewFileSet.
MaxInitFiles == 3

\* Most FileSet objects allocated in one run.
MaxFileSets == 3

\* Longest oldFiles argument of MustReplace.
MaxOldFiles == 2

NoPanic == "none"

\* NewFileSet
NewFileSet(levels, sfile, files) ==
    [levels |-> levels, sfile |-> sfile, files |-> files]

\* Mutant: the file is added behind the receiver's files.
FileSet_PrependLogFileBehind(fs, f) ==
    [recv |-> fs,
     ret  |-> [levels |-> fs.levels, sfile |-> fs.sfile,
               files |-> fs.files \o <<f>>]]

\* Mutant: the file is added to the receiver's own list, which is returned.
FileSet_PrependLogFileInPlace(fs, f) ==
    LET changed == [fs EXCEPT !.files = <<f>> \o fs.files]
    IN  [recv |-> changed, ret |-> changed]

\* FileSet.PrependLogFile: the receiver afterwards and the FileSet returned.
FileSet_PrependLogFile(fs, f) ==
    [recv |-> fs,
     ret  |-> [levels |-> fs.levels, sfile |-> fs.sfile,
               files |-> <<f>> \o fs.files]]

\* assert: the panic raised, if any.
assert(condition, msg) == IF condition THEN NoPanic ELSE msg

\* `for ; i < len(fs.files); i++`: the index (0-based) of the first old
\* file, or the panic; with no files the loop body never runs and i stays 0.
RECURSIVE FindFirstOldFile(_, _, _)
FindFirstOldFile(files, first, i) ==
    IF ~(i < Len(files)) THEN [panic |-> NoPanic, i |-> i]
    ELSE IF files[i + 1] = first THEN [panic |-> NoPanic, i |-> i]
    ELSE IF i = Len(files) - 1
         THEN [panic |-> "first replacement file not found", i |-> i]
    ELSE FindFirstOldFile(files, first, i + 1)

\* `for j := range oldFiles`: the panic raised from 0-based j on, if any;
\* fs.files[i+j] beyond the list is Go's index-out-of-range panic.
RECURSIVE CheckContiguous(_, _, _, _)
CheckContiguous(files, oldFiles, i, j) ==
    IF j >= Len(oldFiles) THEN NoPanic
    ELSE IF i + j >= Len(files) THEN "index out of range"
    ELSE IF files[i + j + 1] # oldFiles[j + 1]
         THEN "cannot replace non-contiguous files"
    ELSE CheckContiguous(files, oldFiles, i, j + 1)

\* The FileSet MustReplace builds once the checks have passed: the files
\* before index i, the new file, the files after the run.
ReplacedFileSet(fs, oldFiles, newFile, i) ==
    [levels |-> fs.levels,
     sfile  |-> "nil",
     files  |-> [k \in 1..(Len(fs.files) - Len(oldFiles) + 1) |->
                    IF k <= i THEN fs.files[k]
                    ELSE IF k = i + 1 THEN newFile
                    ELSE fs.files[k + Len(oldFiles) - 1]]]

\* Mutant: the new file is put behind the remaining files.
FileSet_MustReplaceAtEnd(fs, oldFiles, newFile) ==
    LET a == assert(Len(oldFiles) > 0, "assert failed: cannot replace empty files")
    IN  IF a # NoPanic THEN [panic |-> a, recv |-> fs, ret |-> fs]
        ELSE LET found == FindFirstOldFile(fs.files, oldFiles[1], 0)
                 c     == IF found.panic # NoPanic THEN found.panic
                          ELSE CheckContiguous(fs.files, oldFiles, found.i, 0)
             IN  IF c # NoPanic THEN [panic |-> c, recv |-> fs, ret |-> fs]
                 ELSE [panic |-> NoPanic, recv |-> fs,
                       ret |-> [levels |-> fs.levels, sfile |-> "nil",
                                files |-> SubSeq(fs.files, 1, found.i)
                                          \o SubSeq(fs.files, found.i + Len(oldFiles) + 1,
                                                    Len(fs.files))
                                          \o <<newFile>>]]

\* Mutant: the contiguity loop is missing; only the slice bounds of the copy
\* can still panic.
FileSet_MustReplaceUnchecked(fs, oldFiles, newFile) ==
    LET a == assert(Len(oldFiles) > 0, "assert failed: cannot replace empty files")
    IN  IF a # NoPanic THEN [panic |-> a, recv |-> fs, ret |-> fs]
        ELSE LET found == FindFirstOldFile(fs.files, oldFiles[1], 0)
             IN  IF found.panic # NoPanic
                 THEN [panic |-> found.panic, recv |-> fs, ret |-> fs]
                 ELSE IF found.i + Len(oldFiles) > Len(fs.files)
                 THEN [panic |-> "slice bounds out of range", recv |-> fs, ret |-> fs]
                 ELSE [panic |-> NoPanic, recv |-> fs,
                       ret |-> ReplacedFileSet(fs, oldFiles, newFile, found.i)]

\* Mutant: the new list is built by appending to fs.files[:i], which
\* overwrites the receiver's own backing array.
FileSet_MustReplaceInPlace(fs, oldFiles, newFile) ==
    LET a == assert(Len(oldFiles) > 0, "assert failed: cannot replace empty files")
    IN  IF a # NoPanic THEN [panic |-> a, recv |-> fs, ret |-> fs]
        ELSE LET found == FindFirstOldFile(fs.files, oldFiles[1], 0)
                 c     == IF found.panic # NoPanic THEN found.panic
                          ELSE CheckContiguous(fs.files, oldFiles, found.i, 0)
                 ret   == ReplacedFileSet(fs, oldFiles, newFile, found.i)
             IN  IF c # NoPanic THEN [panic |-> c, recv |-> fs, ret |-> fs]
                 ELSE [panic |-> NoPanic,
                       recv  |-> [fs EXCEPT !.files =
                                    [k \in 1..Len(fs.files) |->
                                        IF k <= Len(ret.files) THEN ret.files[k]
                                        ELSE fs.files[k]]],
                       ret   |-> ret]

\* FileSet.MustReplace: the panic raised (if any), the receiver afterwards
\* and the FileSet returned (none when it panics).
FileSet_MustReplace(fs, oldFiles, newFile) ==
    LET a == assert(Len(oldFiles) > 0, "assert failed: cannot replace empty files")
    IN  IF a # NoPanic THEN [panic |-> a, recv |-> fs, ret |-> fs]
        ELSE LET found == FindFirstOldFile(fs.files, oldFiles[1], 0)
                 c     == IF found.panic # NoPanic THEN found.panic
                          ELSE CheckContiguous(fs.files, oldFiles, found.i, 0)
             IN  IF c # NoPanic THEN [panic |-> c, recv |-> fs, ret |-> fs]
                 ELSE [panic |-> NoPanic, recv |-> fs,
                       ret |-> ReplacedFileSet(fs, oldFiles, newFile, found.i)]

-----------------------------------------------------------------------------
(* The compactor / index: calls on the FileSets of one lineage. Files      *)
(* handed in as f or newFile are newly created ones (fresh numbers), so    *)
(* the files of a FileSet are pairwise distinct.                           *)

NoCall == [op |-> "none", recv |-> 0, recvFiles |-> <<>>, oldFiles |-> <<>>,
           newFile |-> 0, panic |-> NoPanic, ret |-> 0, heapLen |-> 0]

IdleFileSet ==
    /\ fsHeap = <<>>
    /\ fsNextFile = 1
    /\ fsLast = NoCall

\* The files that exist so far (1, 2, ...) and file 0, which is in no
\* FileSet.
KnownFiles == 0..(fsNextFile - 1)

CallPrependLogFile ==
    /\ fsLast.panic = NoPanic
    /\ Len(fsHeap) < MaxFileSets
    /\ \E r \in 1..Len(fsHeap) :
          LET f   == fsNextFile
              res == FileSet_PrependLogFile(fsHeap[r], f)
          IN  /\ fsHeap' = Append([fsHeap EXCEPT ![r] = res.recv], res.ret)
              /\ fsNextFile' = fsNextFile + 1
              /\ fsLast' = [op |-> "PrependLogFile", recv |-> r,
                            recvFiles |-> fsHeap[r].files, oldFiles |-> <<>>,
                            newFile |-> f, panic |-> NoPanic,
                            ret |-> Len(fsHeap) + 1, heapLen |-> Len(fsHeap)]
    /\ UNCHANGED tvVars
    /\ UNCHANGED mVars
    /\ UNCHANGED <<cVars, rVars, sVars, nVars, kVars, xVars, lVars, gVars, pVars, eVars, wVars, zVars>>

\* A panic ends the process: no call follows it.
CallMustReplace ==
    /\ fsLast.panic = NoPanic
    /\ Len(fsHeap) < MaxFileSets
    /\ \E r \in 1..Len(fsHeap) : \E oldFiles \in SeqsUpTo(KnownFiles, MaxOldFiles) :
          LET newFile == fsNextFile
              res     == FileSet_MustReplace(fsHeap[r], oldFiles, newFile)
              ok      == res.panic = NoPanic
          IN  /\ fsHeap' = IF ok
                           THEN Append([fsHeap EXCEPT ![r] = res.recv], res.ret)
                           ELSE [fsHeap EXCEPT ![r] = res.recv]
              /\ fsNextFile' = fsNextFile + 1
              /\ fsLast' = [op |-> "MustReplace", recv |-> r,
                            recvFiles |-> fsHeap[r].files, oldFiles |-> oldFiles,
                            newFile |-> newFile, panic |-> res.panic,
                            ret |-> IF ok THEN Len(fsHeap) + 1 ELSE 0,
                            heapLen |-> Len(fsHeap)]
    /\ UNCHANGED tvVars
    /\ UNCHANGED mVars
    /\ UNCHANGED <<cVars, rVars, sVars, nVars, kVars, xVars, lVars, gVars, pVars, eVars, wVars, zVars>>

-----------------------------------------------------------------------------
(* Claims about PrependLogFile and MustReplace.                            *)

\* oldFiles is a non-empty run of files starting at position p (1-based).
IsRunAt(files, oldFiles, p) ==
    /\ Len(oldFiles) > 0
    /\ p >= 1
    /\ p + Len(oldFiles) - 1 <= Len(files)
    /\ \A j \in 1..Len(oldFiles) : files[p + j - 1] = oldFiles[j]

IsRun(files, oldFiles) == \E p \in 1..Len(files) : IsRunAt(files, oldFiles, p)

\* C6: MustReplace with a contiguous, same-order, non-empty run of the
\* receiver's files returns a FileSet whose list is the receiver's list
\* with that run replaced by newFile at the run's first position; the other
\* files are the same objects in the same order.
C6_ReplacesRun ==
    fsLast.op = "MustReplace" =>
        \A p \in 1..Len(fsLast.recvFiles) :
            IsRunAt(fsLast.recvFiles, fsLast.oldFiles, p) =>
                /\ fsLast.panic = NoPanic
                /\ fsLast.ret = Len(fsHeap)
                /\ LET old == fsLast.recvFiles
                       n   == Len(fsLast.oldFiles)
                       new == fsHeap[fsLast.ret].files
                   IN  /\ Len(new) = Len(old) - n + 1
                       /\ \A k \in 1..(p - 1) : new[k] = old[k]
                       /\ new[p] = fsLast.newFile
                       /\ \A k \in (p + 1)..Len(new) : new[k] = old[k + n - 1]

\* C6 witness: a run of two files with a file before it and a file after
\* it has been replaced.
C6_Witness ==
    /\ fsLast.op = "MustReplace"
    /\ fsLast.panic = NoPanic
    /\ Len(fsLast.recvFiles) = 4
    /\ IsRunAt(fsLast.recvFiles, fsLast.oldFiles, 2)
    /\ Len(fsLast.oldFiles) = 2
    /\ Len(fsHeap[fsLast.ret].files) = 3

\* C7: MustReplace panics and returns no FileSet whenever oldFiles is not a
\* non-empty contiguous run of the receiver's files.
C7_PanicsOtherwise ==
    (fsLast.op = "MustReplace" /\ ~IsRun(fsLast.recvFiles, fsLast.oldFiles)) =>
        /\ fsLast.panic # NoPanic
        /\ fsLast.ret = 0
        /\ Len(fsHeap) = fsLast.heapLen

\* C7 witness: the run starts inside the receiver's list and runs past its
\* end, where only the index check of the runtime stops it.
C7_Witness ==
    /\ fsLast.op = "MustReplace"
    /\ Len(fsLast.recvFiles) >= 2
    /\ Len(fsLast.oldFiles) = 2
    /\ fsLast.oldFiles[1] = fsLast.recvFiles[Len(fsLast.recvFiles)]
    /\ fsLast.panic = "index out of range"

\* C8: no call of PrependLogFile or MustReplace changes a FileSet that
\* exists: its files, levels and series file stay as they are.
C8_ReceiverUnchanged ==
    [][\A i \in 1..Len(fsHeap) :
          /\ i <= Len(fsHeap')
          /\ fsHeap'[i] = fsHeap[i]]_vars

\* C8 witness: a FileSet returned by one call was the receiver of a second
\* successful call, after which the first FileSet is still as constructed.
C8_Witness ==
    /\ Len(fsHeap) = 3
    /\ fsLast.recv = 2
    /\ fsLast.op = "MustReplace"
    /\ fsLast.panic = NoPanic
    /\ Len(fsHeap[1].files) = 3

\* C9: PrependLogFile(f) returns a FileSet whose files are f followed by the
\* receiver's files, the same objects in the same order.
C9_PrependsAtFront ==
    fsLast.op = "PrependLogFile" =>
        /\ fsLast.ret = Len(fsHeap)
        /\ LET new == fsHeap[fsLast.ret].files
           IN  /\ Len(new) = Len(fsLast.recvFiles) + 1
               /\ new[1] = fsLast.newFile
               /\ \A k \in 1..Len(fsLast.recvFiles) : new[k + 1] = fsLast.recvFiles[k]

\* C9 witness: a log file was prepended to a FileSet that held files.
C9_Witness ==
    /\ fsLast.op = "PrependLogFile"
    /\ Len(fsLast.recvFiles) >= 2
    /\ Len(fsHeap[fsLast.ret].files) = Len(fsLast.recvFiles) + 1

-----------------------------------------------------------------------------
(* The FileSet-attached iterator wrappers and their once-guarded Close.    *)
(* Close is `itr.once.Do(func() { itr.fs.Release() }); return              *)
(* itr.itr.Close()`; sync.Once.Do loads done, and when it is 0 takes the   *)
(* mutex, runs the function if done is still 0, stores done = 1, unlocks.  *)

\* Goroutines that call Close on the same wrapper.
MaxClosers == 2

\* Close calls each goroutine makes.
MaxCloseCalls == 2

\* Files of the attached FileSet.
MaxCloseFiles == 2

Closers == 1..MaxClosers

WrapperKinds == {"seriesID", "seriesIDSet", "metric", "tagKey", "tagValue"}

\* File.Release: drops one reference.
File_Release(ref) == ref - 1

\* Mutant: every file is released twice.
FileSet_ReleaseTwice(refs) ==
    [i \in 1..Len(refs) |-> File_Release(File_Release(refs[i]))]

\* FileSet.Release: releases every file once.
FileSet_Release(refs) == [i \in 1..Len(refs) |-> File_Release(refs[i])]

\* fileSetSeriesIDIterator.Close: whether its once.Do still has to run the
\* release, given the once's done flag.
fileSetSeriesIDIterator_Close(done) == done = 0

\* fileSetSeriesIDSetIterator.Close
fileSetSeriesIDSetIterator_Close(done) == done = 0

\* Mutant: the release is not guarded by the once.
fileSetMetricIterator_CloseUnguarded(done) == TRUE

\* fileSetMetricIterator.Close
fileSetMetricIterator_Close(done) == done = 0

\* fileSetTagKeyIterator.Close
fileSetTagKeyIterator_Close(done) == done = 0

\* fileSetTagValueIterator.Close
fileSetTagValueIterator_Close(done) == done = 0

MustRelease(kind, done) ==
    CASE kind = "seriesID"    -> fileSetSeriesIDIterator_Close(done)
      [] kind = "seriesIDSet" -> fileSetSeriesIDSetIterator_Close(done)
      [] kind = "metric"      -> fileSetMetricIterator_Close(done)
      [] kind = "tagKey"      -> fileSetTagKeyIterator_Close(done)
      [] kind = "tagValue"    -> fileSetTagValueIterator_Close(done)

\* The reference count every file has when the wrapper is built: the
\* index's own reference and the one retained for the wrapper.
StartRef == 2

IdleClose ==
    /\ cKind = "metric"
    /\ cOnce = [done |-> 0, m |-> 0]
    /\ cPc = <<>>
    /\ cCalls = <<>>
    /\ cRefs = <<>>
    /\ cReleases = 0
    /\ cInner = 0

\* Goroutine t calls Close.
CloseCall(t) ==
    /\ cPc[t] = "idle"
    /\ cCalls[t] < MaxCloseCalls
    /\ cPc' = [cPc EXCEPT ![t] = "load"]
    /\ UNCHANGED <<cKind, cOnce, cCalls, cRefs, cReleases, cInner>>
    /\ UNCHANGED <<tvVars, mVars, fsVars, rVars, sVars, nVars, kVars, xVars, lVars, gVars, pVars, eVars, wVars, zVars>>

\* once.Do: the atomic load of done on the fast path.
OnceLoad(t) ==
    /\ cPc[t] = "load"
    /\ cPc' = [cPc EXCEPT ![t] = IF MustRelease(cKind, cOnce.done)
                                  THEN "lock" ELSE "inner"]
    /\ UNCHANGED <<cKind, cOnce, cCalls, cRefs, cReleases, cInner>>
    /\ UNCHANGED <<tvVars, mVars, fsVars, rVars, sVars, nVars, kVars, xVars, lVars, gVars, pVars, eVars, wVars, zVars>>

\* doSlow: o.m.Lock()
OnceLock(t) ==
    /\ cPc[t] = "lock"
    /\ cOnce.m = 0
    /\ cOnce' = [cOnce EXCEPT !.m = t]
    /\ cPc' = [cPc EXCEPT ![t] = "slow"]
    /\ UNCHANGED <<cKind, cCalls, cRefs, cReleases, cInner>>
    /\ UNCHANGED <<tvVars, mVars, fsVars, rVars, sVars, nVars, kVars, xVars, lVars, gVars, pVars, eVars, wVars, zVars>>

\* doSlow: `if o.done == 0 { defer store; f() }` with f = itr.fs.Release().
OnceRun(t) ==
    /\ cPc[t] = "slow"
    /\ IF MustRelease(cKind, cOnce.done)
       THEN /\ cRefs' = FileSet_Release(cRefs)
            /\ cReleases' = cReleases + 1
            /\ cPc' = [cPc EXCEPT ![t] = "store"]
       ELSE /\ cPc' = [cPc EXCEPT ![t] = "unlock"]
            /\ UNCHANGED <<cRefs, cReleases>>
    /\ UNCHANGED <<cKind, cOnce, cCalls, cInner>>
    /\ UNCHANGED <<tvVars, mVars, fsVars, rVars, sVars, nVars, kVars, xVars, lVars, gVars, pVars, eVars, wVars, zVars>>

\* doSlow: the deferred atomic store of done = 1.
OnceStore(t) ==
    /\ cPc[t] = "store"
    /\ cOnce' = [cOnce EXCEPT !.done = 1]
    /\ cPc' = [cPc EXCEPT ![t] = "unlock"]
    /\ UNCHANGED <<cKind, cCalls, cRefs, cReleases, cInner>>
    /\ UNCHANGED <<tvVars, mVars, fsVars, rVars, sVars, nVars, kVars, xVars, lVars, gVars, pVars, eVars, wVars, zVars>>

\* doSlow: the deferred o.m.Unlock()
OnceUnlock(t) ==
    /\ cPc[t] = "unlock"
    /\ cOnce' = [cOnce EXCEPT !.m = 0]
    /\ cPc' = [cPc EXCEPT ![t] = "inner"]
    /\ UNCHANGED <<cKind, cCalls, cRefs, cReleases, cInner>>
    /\ UNCHANGED <<tvVars, mVars, fsVars, rVars, sVars, nVars, kVars, xVars, lVars, gVars, pVars, eVars, wVars, zVars>>

\* `return itr.itr.Close()`: the inner iterator is closed on every call.
InnerClose(t) ==
    /\ cPc[t] = "inner"
    /\ cInner' = cInner + 1
    /\ cCalls' = [cCalls EXCEPT ![t] = @ + 1]
    /\ cPc' = [cPc EXCEPT ![t] = "idle"]
    /\ UNCHANGED <<cKind, cOnce, cRefs, cReleases>>
    /\ UNCHANGED <<tvVars, mVars, fsVars, rVars, sVars, nVars, kVars, xVars, lVars, gVars, pVars, eVars, wVars, zVars>>

-----------------------------------------------------------------------------
(* Claims about Close.                                                     *)

\* Close calls that have returned.
ClosesReturned ==
    LET RECURSIVE Sum(_)
        Sum(t) == IF t = 0 THEN 0 ELSE cCalls[t] + Sum(t - 1)
    IN  Sum(Len(cCalls))

\* C10: however often and from however many goroutines Close is called on
\* a FileSet-attached wrapper, the FileSet is released exactly once: never
\* twice, and once as soon as a Close has returned; every file has lost
\* exactly that one reference.
C10_ReleasedOnce ==
    /\ cReleases <= 1
    /\ ClosesReturned >= 1 => cReleases = 1
    /\ \A i \in 1..Len(cRefs) : cRefs[i] = StartRef - cReleases

\* C10 witness: two goroutines have each closed the wrapper twice.
C10_Witness ==
    /\ Len(cCalls) >= 2
    /\ cCalls[1] = 2 /\ cCalls[2] = 2
    /\ cReleases = 1
    /\ cInner = 4

-----------------------------------------------------------------------------
(* Reference counting: readers that retain the index's current FileSet and *)
(* release it later, and the single compactor that swaps in the FileSet    *)
(* built by MustReplace and then drops the index's reference to the files  *)
(* it superseded. A File's count is an atomic counter (File.Retain and     *)
(* File.Release belong to the segment implementations); a File is closed   *)
(* and removed once its count is zero.                                     *)

\* Most files of the first FileSet.
MaxRefFiles == 2

\* Reader goroutines.
MaxReaders == 2

\* Snapshots each reader takes, one after the other.
MaxReads == 2

\* Most FileSet objects the compactor's lineage reaches.
MaxRefFileSets == 3

Readers == 1..MaxReaders

\* File.Retain: adds one reference.
File_Retain(ref) == ref + 1

\* Mutant: the loop starts at the second file.
FileSet_RetainSkipFirst(refs) ==
    [i \in 1..Len(refs) |-> IF i = 1 THEN refs[i] ELSE File_Retain(refs[i])]

\* FileSet.Retain: retains every file once; refs are the counts of fs.files.
FileSet_Retain(refs) == [i \in 1..Len(refs) |-> File_Retain(refs[i])]

\* The counts of the files of a FileSet, in the order of fs.files.
RefsOf(files) == [i \in 1..Len(files) |-> rRefs[files[i]]]

\* The counts of all files once those of `files` have become `new`.
WithRefs(files, new) ==
    [f \in 1..Len(rRefs) |->
        IF \E i \in 1..Len(files) : files[i] = f
        THEN new[CHOOSE i \in 1..Len(files) : files[i] = f]
        ELSE rRefs[f]]

NoLog == [retains |-> 0, releases |-> 0]

IdleRef ==
    /\ rHeap = <<>>
    /\ rActive = 0
    /\ rRefs = <<>>
    /\ rBase = <<>>
    /\ rPending = <<>>
    /\ rReaders = <<>>
    /\ rLog = <<>>

\* A reader takes the index's current FileSet and retains it.
ReaderRetain(r) ==
    /\ rReaders[r].pc = "idle"
    /\ rReaders[r].reads < MaxReads
    /\ LET files == rHeap[rActive].files
       IN  rRefs' = WithRefs(files, FileSet_Retain(RefsOf(files)))
    /\ rReaders' = [rReaders EXCEPT ![r].pc = "holding", ![r].fs = rActive]
    /\ rLog' = [rLog EXCEPT ![rActive].retains = @ + 1]
    /\ UNCHANGED <<rHeap, rActive, rBase, rPending>>
    /\ UNCHANGED <<tvVars, mVars, fsVars, cVars, sVars, nVars, kVars, xVars, lVars, gVars, pVars, eVars, wVars, zVars>>

\* The reader is done with its snapshot and releases it.
ReaderRelease(r) ==
    /\ rReaders[r].pc = "holding"
    /\ LET files == rHeap[rReaders[r].fs].files
       IN  rRefs' = WithRefs(files, FileSet_Release(RefsOf(files)))
    /\ rReaders' = [rReaders EXCEPT ![r].pc = "idle", ![r].fs = 0,
                                    ![r].reads = @ + 1]
    /\ rLog' = [rLog EXCEPT ![rReaders[r].fs].releases = @ + 1]
    /\ UNCHANGED <<rHeap, rActive, rBase, rPending>>
    /\ UNCHANGED <<tvVars, mVars, fsVars, cVars, sVars, nVars, kVars, xVars, lVars, gVars, pVars, eVars, wVars, zVars>>

\* The compactor replaces a run of the current FileSet by a new file (which
\* the index holds one reference to) and makes the result the current one.
Compact ==
    /\ rPending = <<>>
    /\ Len(rHeap) < MaxRefFileSets
    /\ \E oldFiles \in SeqsUpTo(1..Len(rRefs), MaxOldFiles) :
          LET newFile == Len(rRefs) + 1
              res     == FileSet_MustReplace(rHeap[rActive], oldFiles, newFile)
          IN  /\ res.panic = NoPanic
              /\ rHeap' = Append([rHeap EXCEPT ![rActive] = res.recv], res.ret)
              /\ rPending' = oldFiles
    /\ rActive' = Len(rHeap) + 1
    /\ rRefs' = Append(rRefs, 1)
    /\ rBase' = Append(rBase, 1)
    /\ rLog' = Append(rLog, NoLog)
    /\ UNCHANGED rReaders
    /\ UNCHANGED <<tvVars, mVars, fsVars, cVars, sVars, nVars, kVars, xVars, lVars, gVars, pVars, eVars, wVars, zVars>>

\* The compactor drops the index's reference to every superseded file.
ReleaseSuperseded ==
    /\ rPending # <<>>
    /\ rRefs' = WithRefs(rPending,
                         [i \in 1..Len(rPending) |-> File_Release(rRefs[rPending[i]])])
    /\ rBase' = [f \in 1..Len(rBase) |->
                    IF \E i \in 1..Len(rPending) : rPending[i] = f
                    THEN rBase[f] - 1 ELSE rBase[f]]
    /\ rPending' = <<>>
    /\ UNCHANGED <<rHeap, rActive, rReaders, rLog>>
    /\ UNCHANGED <<tvVars, mVars, fsVars, cVars, sVars, nVars, kVars, xVars, lVars, gVars, pVars, eVars, wVars, zVars>>

-----------------------------------------------------------------------------
(* Claims about reference counting.                                        *)

\* Retain calls minus Release calls made so far on the FileSets holding f.
RECURSIVE OpenRetains(_, _)
OpenRetains(f, k) ==
    IF k = 0 THEN 0
    ELSE (IF \E i \in 1..Len(rHeap[k].files) : rHeap[k].files[i] = f
          THEN rLog[k].retains - rLog[k].releases ELSE 0)
         + OpenRetains(f, k - 1)

\* C11: every Retain adds and every Release removes exactly one reference
\* of every file of the FileSet it is called on: at any time a File's count
\* is its count without the readers plus the Retain calls minus the Release
\* calls made on the FileSets that hold it, so after as many Release as
\* Retain calls it is back at its value before the first Retain.
C11_RetainReleaseBalance ==
    \A f \in 1..Len(rRefs) : rRefs[f] = rBase[f] + OpenRetains(f, Len(rHeap))

\* C11 witness: a FileSet has been retained twice and released twice, and
\* its files are back at their base counts.
C11_Witness ==
    \E k \in 1..Len(rHeap) :
        /\ rLog[k].retains = 2
        /\ rLog[k].releases = 2
        /\ Len(rHeap[k].files) >= 2
        /\ \A i \in 1..Len(rHeap[k].files) :
              rRefs[rHeap[k].files[i]] = rBase[rHeap[k].files[i]]

\* Reader r holds a snapshot that contains file f.
Holds(r, f) ==
    /\ rReaders[r].pc = "holding"
    /\ \E i \in 1..Len(rHeap[rReaders[r].fs].files) :
          rHeap[rReaders[r].fs].files[i] = f

\* C12: no File's count is zero while a reader that retained a snapshot
\* containing it has not released that snapshot.
C12_HeldFilesStayOpen ==
    \A f \in 1..Len(rRefs) :
        (\E r \in DOMAIN rReaders : Holds(r, f)) => rRefs[f] > 0

\* C12 witness: a reader still holds a superseded snapshot; the compactor
\* has dropped the index's reference to one of its files, which only the
\* reader keeps open.
C12_Witness ==
    \E r \in DOMAIN rReaders : \E f \in 1..Len(rRefs) :
        /\ Holds(r, f)
        /\ rReaders[r].fs # rActive
        /\ rPending = <<>>
        /\ rBase[f] = 0
        /\ rRefs[f] = 1

-----------------------------------------------------------------------------
(* Reading a snapshot while the index changes: a reader holds FileSet S    *)
(* and makes point lookups and merged iterations on it, while              *)
(* PrependLogFile and MustReplace are called on S and on the FileSets      *)
(* derived from it. Every file here is a log of one entry: a name (or tag  *)
(* key) that it adds or deletes.                                           *)

\* Most files of the first FileSet.
MaxSnapFiles == 2

\* Most structural operations in one run.
MaxSnapOps == 1

SnapKeys == {<<1>>, <<2>>}

SnapFile == UNION {{[nil |-> FALSE, elems |-> FileElems({k}, D)] : D \in SUBSET {k}} :
                      k \in SnapKeys}

\* File.Metric(name) / File.TagKey(name, key): the file's element with that
\* name, or nil.
File_Metric(content, f, name) ==
    IF \E i \in 1..Len(content.elems) : content.elems[i].key = name
    THEN LET i == CHOOSE i \in 1..Len(content.elems) : content.elems[i].key = name
         IN  Elem(f, name, content.elems[i].deleted)
    ELSE NoElem

File_TagKey(content, f, key) == File_Metric(content, f, key)

\* FileSet.Metric from file i on: the first file that has the name decides;
\* a deleted element gives nil.
RECURSIVE MetricLoop(_, _, _)
MetricLoop(files, name, i) ==
    IF i > Len(files) THEN NoElem
    ELSE LET e == File_Metric(files[i], i, name)
         IN  IF e.nil THEN MetricLoop(files, name, i + 1)
             ELSE IF e.deleted THEN NoElem
             ELSE e

\* Mutant: a deleted element is passed over and older files are asked.
FileSet_MetricSkipDeleted(files, name) ==
    LET live == {i \in 1..Len(files) :
                    LET e == File_Metric(files[i], i, name) IN ~e.nil /\ ~e.deleted}
    IN  IF live = {} THEN NoElem
        ELSE Elem(CHOOSE i \in live : \A j \in live : i <= j, name, FALSE)

\* Mutant: the newest holder's element is returned even when it is deleted.
FileSet_MetricEvenDeleted(files, name) ==
    LET holders == {i \in 1..Len(files) : ~File_Metric(files[i], i, name).nil}
    IN  IF holders = {} THEN NoElem
        ELSE LET i == CHOOSE i \in holders : \A j \in holders : i <= j
             IN  File_Metric(files[i], i, name)

\* FileSet.Metric
FileSet_Metric(files, name) == MetricLoop(files, name, 1)

\* FileSet.HasTagKey from file i on.
RECURSIVE HasTagKeyLoop(_, _, _)
HasTagKeyLoop(files, key, i) ==
    IF i > Len(files) THEN FALSE
    ELSE LET e == File_TagKey(files[i], i, key)
         IN  IF ~e.nil THEN ~e.deleted
             ELSE HasTagKeyLoop(files, key, i + 1)

\* Mutant: true if any file holds the key undeleted.
FileSet_HasTagKeyAnyFile(files, key) ==
    \E i \in 1..Len(files) :
        LET e == File_TagKey(files[i], i, key) IN ~e.nil /\ ~e.deleted

\* FileSet.HasTagKey
FileSet_HasTagKey(files, key) == HasTagKeyLoop(files, key, 1)

\* What the files of a file list hold, in list order.
ContentsOf(files) == [i \in 1..Len(files) |-> sContent[files[i]]]

\* All groups a merged iterator returns before nil.
RECURSIVE MetricDrain(_)
MetricDrain(itr) ==
    IF itr.nil THEN <<>>
    ELSE LET n == MetricMergeNext(itr)
         IN  IF n.nil THEN <<>> ELSE <<n.ret>> \o MetricDrain(n.itr)

\* The file a compaction writes for a run of files: one element for every
\* name of the run, deleted if the newest file holding the name deletes it.
CompactedFile(run) ==
    LET groups == MetricDrain(FileSet_MetricIterator(run))
    IN  [nil   |-> FALSE,
         elems |-> [i \in 1..Len(groups) |->
                      [key |-> groups[i][1].key, deleted |-> groups[i][1].deleted]]]

IdleSnap ==
    /\ sHeap = <<>>
    /\ sContent = <<>>
    /\ sSnap = 0
    /\ sBase = <<>>
    /\ sItr = NilItr
    /\ sHist = <<>>

\* The reader takes the newest FileSet as its snapshot.
TakeSnapshot ==
    /\ sSnap = 0
    /\ sSnap' = Len(sHeap)
    /\ sBase' = sHeap[Len(sHeap)].files
    /\ UNCHANGED <<sHeap, sContent, sItr, sHist>>
    /\ UNCHANGED <<tvVars, mVars, fsVars, cVars, rVars, nVars, kVars, xVars, lVars, gVars, pVars, eVars, wVars, zVars>>

\* S.MetricIterator(): a new merged iterator over the files S has now.
ReadOpen ==
    /\ sSnap # 0
    /\ sItr' = FileSet_MetricIterator(ContentsOf(sHeap[sSnap].files))
    /\ sHist' = <<>>
    /\ UNCHANGED <<sHeap, sContent, sSnap, sBase>>
    /\ UNCHANGED <<tvVars, mVars, fsVars, cVars, rVars, nVars, kVars, xVars, lVars, gVars, pVars, eVars, wVars, zVars>>

\* Next on the open iterator, until it has returned nil.
ReadNext ==
    /\ ~sItr.nil
    /\ IF sHist = <<>> THEN TRUE ELSE sHist[Len(sHist)].group # <<>>
    /\ LET n == MetricMergeNext(sItr)
       IN  /\ sItr' = n.itr
           /\ sHist' = Append(sHist, [group |-> n.ret, at |-> Len(sHeap)])
    /\ UNCHANGED <<sHeap, sContent, sSnap, sBase>>
    /\ UNCHANGED <<tvVars, mVars, fsVars, cVars, rVars, nVars, kVars, xVars, lVars, gVars, pVars, eVars, wVars, zVars>>

\* PrependLogFile on S or any FileSet derived from it, with a new log file.
SnapPrependLogFile ==
    /\ Len(sHeap) <= MaxSnapOps
    /\ \E r \in 1..Len(sHeap) : \E content \in SnapFile :
          LET f   == Len(sContent) + 1
              res == FileSet_PrependLogFile(sHeap[r], f)
          IN  /\ sHeap' = Append([sHeap EXCEPT ![r] = res.recv], res.ret)
              /\ sContent' = Append(sContent, content)
    /\ UNCHANGED <<sSnap, sBase, sItr, sHist>>
    /\ UNCHANGED <<tvVars, mVars, fsVars, cVars, rVars, nVars, kVars, xVars, lVars, gVars, pVars, eVars, wVars, zVars>>

\* MustReplace on S or any FileSet derived from it: a run of its files is
\* replaced by the file compacted from them.
SnapMustReplace ==
    /\ Len(sHeap) <= MaxSnapOps
    /\ \E r \in 1..Len(sHeap) :
       \E oldFiles \in SeqsUpTo(1..Len(sContent), MaxOldFiles) :
          LET newFile == Len(sContent) + 1
              res     == FileSet_MustReplace(sHeap[r], oldFiles, newFile)
          IN  /\ res.panic = NoPanic
              /\ sHeap' = Append([sHeap EXCEPT ![r] = res.recv], res.ret)
              /\ sContent' = Append(sContent, CompactedFile(ContentsOf(oldFiles)))
    /\ UNCHANGED <<sSnap, sBase, sItr, sHist>>
    /\ UNCHANGED <<tvVars, mVars, fsVars, cVars, rVars, nVars, kVars, xVars, lVars, gVars, pVars, eVars, wVars, zVars>>

-----------------------------------------------------------------------------
(* Claims about snapshot reads.                                            *)

\* The groups the reader's iterator has returned (the final nil left out).
ReadGroups ==
    LET got == [i \in 1..Len(sHist) |-> sHist[i].group]
    IN  SelectSeq(got, LAMBDA g : g # <<>>)

-----------------------------------------------------------------------------
(* Expressions (cnosql.Expr). A node is [type, op, val, args]: a           *)
(* BinaryExpr has its operator and <<LHS, RHS>>, a ParenExpr <<Expr>>, a   *)
(* Call its arguments; VarRef, StringLiteral and RegexLiteral carry Val.   *)

NilExpr == [type |-> "nil", op |-> "", val |-> "", args |-> <<>>]

BinaryExpr(op, lhs, rhs) ==
    [type |-> "BinaryExpr", op |-> op, val |-> "", args |-> <<lhs, rhs>>]

ParenExpr(e) == [type |-> "ParenExpr", op |-> "", val |-> "", args |-> <<e>>]

Call(arg) == [type |-> "Call", op |-> "", val |-> "", args |-> <<arg>>]

VarRef(v) == [type |-> "VarRef", op |-> "", val |-> v, args |-> <<>>]

StringLiteral(v) == [type |-> "StringLiteral", op |-> "", val |-> v, args |-> <<>>]

RegexLiteral(v) == [type |-> "RegexLiteral", op |-> "", val |-> v, args |-> <<>>]

\* The operators newSeriesCursor and MetricTagKeysByExpr accept, and some
\* they do not.
TagOps == {"EQ", "NEQ", "EQREGEX", "NEQREGEX", "AND", "OR"}

OtherOps == {"LT", "ADD"}

\* The expressions one level deeper than those of E.
Grow(E, ops) ==
    E \cup {BinaryExpr(op, l, r) : op \in ops, l \in E, r \in E}
      \cup {ParenExpr(e) : e \in E}

\* cnosql.Walk: the nodes visited, the node itself first, then its children
\* from left to right; a nil node is not visited.
RECURSIVE Walk(_)
Walk(node) ==
    IF node.type = "nil" THEN <<>>
    ELSE LET RECURSIVE Children(_)
             Children(i) == IF i > Len(node.args) THEN <<>>
                            ELSE Walk(node.args[i]) \o Children(i + 1)
         IN  <<node>> \o Children(1)

-----------------------------------------------------------------------------
(* newSeriesCursor                                                         *)

NoError == "nil"

\* The callback handed to WalkFunc, applied to the visited nodes from the
\* i-th on: err afterwards.
RECURSIVE WalkFunc(_, _, _)
WalkFunc(nodes, i, err) ==
    IF i > Len(nodes) THEN err
    ELSE WalkFunc(nodes, i + 1,
             IF nodes[i].type = "BinaryExpr" /\ nodes[i].op \notin TagOps
             THEN "invalid tag comparison operator" ELSE err)

\* Mutant: only the root of the predicate is looked at.
newSeriesCursorRootOnly(metrics, indexErr, cond) ==
    LET err == IF cond.type = "nil" THEN NoError ELSE WalkFunc(<<cond>>, 1, NoError)
    IN  IF err # NoError
        THEN [called |-> TRUE, cursor |-> "nil", err |-> err, asked |-> FALSE]
        ELSE IF metrics # "nil"
        THEN [called |-> TRUE, cursor |-> metrics, err |-> NoError, asked |-> FALSE]
        ELSE IF indexErr # NoError
        THEN [called |-> TRUE, cursor |-> "nil", err |-> indexErr, asked |-> TRUE]
        ELSE [called |-> TRUE, cursor |-> "index", err |-> NoError, asked |-> TRUE]

\* newSeriesCursor(req, indexSet, cond): metrics is req.Metrics ("nil" or
\* the iterator given), indexErr the error indexSet.MetricIterator() would
\* return. The result names the metric iterator the cursor holds ("nil":
\* no cursor), the error, and whether indexSet.MetricIterator() was called.
newSeriesCursor(metrics, indexErr, cond) ==
    LET err == WalkFunc(Walk(cond), 1, NoError)
    IN  IF err # NoError
        THEN [called |-> TRUE, cursor |-> "nil", err |-> err, asked |-> FALSE]
        ELSE IF metrics # "nil"
        THEN [called |-> TRUE, cursor |-> metrics, err |-> NoError, asked |-> FALSE]
        ELSE IF indexErr # NoError
        THEN [called |-> TRUE, cursor |-> "nil", err |-> indexErr, asked |-> TRUE]
        ELSE [called |-> TRUE, cursor |-> "index", err |-> NoError, asked |-> TRUE]

\* The predicates handed to newSeriesCursor: none, or a tree up to two
\* operators deep over one tag reference, also inside a call.
CursorConds ==
    LET leaves == {VarRef("host"), Call(BinaryExpr("LT", VarRef("host"), VarRef("host"))),
                   Call(VarRef("host"))}
    IN  {NilExpr} \cup Grow(Grow(leaves, {"EQ", "AND", "LT"}), {"NEQREGEX", "OR", "ADD"})

NotCalled == [called |-> FALSE, cursor |-> "nil", err |-> NoError, asked |-> FALSE]

IdleNewCursor ==
    /\ nArgs = [cond |-> NilExpr, metrics |-> "nil", indexErr |-> NoError]
    /\ nRet = NotCalled

CallNewSeriesCursor ==
    /\ ~nRet.called
    /\ nRet' = newSeriesCursor(nArgs.metrics, nArgs.indexErr, nArgs.cond)
    /\ UNCHANGED nArgs
    /\ UNCHANGED <<tvVars, mVars, fsVars, cVars, rVars, sVars, kVars, xVars, lVars, gVars, pVars, eVars, wVars, zVars>>

-----------------------------------------------------------------------------
(* Claims about newSeriesCursor.                                           *)

\* The tree holds, at some depth, a binary operator that is not allowed.
RECURSIVE HasOtherOp(_)
HasOtherOp(e) ==
    \/ e.type = "BinaryExpr" /\ e.op \notin {"EQ", "NEQ", "EQREGEX", "NEQREGEX", "AND", "OR"}
    \/ \E i \in 1..Len(e.args) : HasOtherOp(e.args[i])

\* C14: newSeriesCursor returns an error and no cursor whenever the
\* predicate holds a binary operator other than EQ, NEQ, EQREGEX, NEQREGEX,
\* AND, OR at any depth, without having asked the index set for a metric
\* iterator; otherwise it fails only if the index set's MetricIterator does.
C14_RejectsOtherOperators ==
    nRet.called =>
        /\ HasOtherOp(nArgs.cond) =>
              /\ nRet.err = "invalid tag comparison operator"
              /\ nRet.cursor = "nil"
              /\ ~nRet.asked
        /\ ~HasOtherOp(nArgs.cond) =>
              /\ nRet.err # "invalid tag comparison operator"
              /\ nRet.err # NoError <=> (nArgs.metrics = "nil" /\ nArgs.indexErr # NoError)
              /\ nRet.err = NoError <=> nRet.cursor # "nil"

\* C14 witness: an allowed operator at the root, a disallowed one two
\* levels below it; the call failed without asking for a metric iterator.
C14_Witness ==
    /\ nRet.called
    /\ nRet.err = "invalid tag comparison operator"
    /\ nArgs.cond.type = "BinaryExpr" /\ nArgs.cond.op = "OR"
    /\ \A i \in 1..2 : ~(nArgs.cond.args[i].type = "BinaryExpr"
                          /\ nArgs.cond.args[i].op \notin TagOps)
    /\ nArgs.metrics = "nil"
    /\ ~nRet.asked

-----------------------------------------------------------------------------
(* seriesCursor: Next, readSeriesKeys, Close. cur.mitr is the metric       *)
(* iterator handed in as req.Metrics (any tsdb.MetricIterator: a list of   *)
(* names and errors here), the tombstone-unaware adapter over a FileSet's  *)
(* merged metric iterator, or nil. The index set resolves a metric name to *)
(* an error, to no iterator, or to a series-ID iterator that may itself    *)
(* fail; the series file maps a series ID to its key.                      *)

\* Longest list of a metric iterator handed in as req.Metrics.
MaxGiven == 2

\* Most files of the FileSet behind the adapter.
MaxCurFiles == 2

\* Most Close calls on one cursor.
MaxCursorCloses == 2

CurNames == SnapKeys

\* SeriesFile.SeriesKey: series 1 and 2 are of metric <<1>>, series 3 of
\* metric <<2>>; any other series is not in the series file (empty key).
SeriesFile_SeriesKey(id) ==
    CASE id = 1 -> [empty |-> FALSE, name |-> <<1>>, tags |-> 2]
      [] id = 2 -> [empty |-> FALSE, name |-> <<1>>, tags |-> 1]
      [] id = 3 -> [empty |-> FALSE, name |-> <<2>>, tags |-> 1]
      [] OTHER  -> [empty |-> TRUE, name |-> <<>>, tags |-> 0]

\* The series IDs the index holds for a metric; 4 is a series whose key is
\* gone from the series file.
SeriesOf(name) == IF name = <<1>> THEN {1, 2, 4} ELSE {3, 4}

NilRow == [nil |-> TRUE, name |-> <<>>, tags |-> 0]

\* ParseSeriesKey: the name and the tags of a series key.
ParseSeriesKey(key) == [nil |-> FALSE, name |-> key.name, tags |-> key.tags]

\* The order of seriesKeys: by name, then by tags.
CompareSeriesKeys(a, b) ==
    LET cmp == BytesCompare(a.name, b.name)
    IN  IF cmp # 0 THEN cmp
        ELSE IF a.tags < b.tags THEN -1
        ELSE IF a.tags > b.tags THEN 1
        ELSE 0

\* sort.Sort(seriesKeys(cur.keys))
RECURSIVE SortSeriesKeys(_)
SortSeriesKeys(keys) ==
    IF keys = <<>> THEN <<>>
    ELSE LET i == CHOOSE i \in 1..Len(keys) :
                      \A j \in 1..Len(keys) : CompareSeriesKeys(keys[i], keys[j]) <= 0
         IN  <<keys[i]>> \o SortSeriesKeys(SubSeq(keys, 1, i - 1)
                                           \o SubSeq(keys, i + 1, Len(keys)))

\* The IDs of S in increasing order, as a series-ID iterator yields them.
RECURSIVE SortedIDs(_)
SortedIDs(S) ==
    IF S = {} THEN <<>>
    ELSE LET lo == CHOOSE s \in S : \A o \in S : s <= o
         IN  <<lo>> \o SortedIDs(S \ {lo})

\* indexSet.MetricSeriesByExprIterator(name, cond): an error, a nil
\* iterator, or an iterator over ids whose Next fails after them if fail.
Resolutions(name) ==
    {[err |-> TRUE, nil |-> FALSE, ids |-> <<>>, fail |-> FALSE],
     [err |-> FALSE, nil |-> TRUE, ids |-> <<>>, fail |-> FALSE]} \cup
    {[err |-> FALSE, nil |-> FALSE, ids |-> SortedIDs(S), fail |-> f] :
        S \in SUBSET SeriesOf(name), f \in BOOLEAN}

\* What a metric iterator handed in as req.Metrics returns next: a name or
\* an error.
GivenItems == {[err |-> TRUE, name |-> <<>>]} \cup
              {[err |-> FALSE, name |-> n] : n \in CurNames}

NilMitr == [kind |-> "nil", files |-> <<>>, list |-> <<>>, pos |-> 0,
            itr |-> NilItr, seen |-> <<>>, closes |-> 0]

GivenMitr(list) == [NilMitr EXCEPT !.kind = "given", !.list = list]

\* NewTSDBMetricIteratorAdapter(fs.MetricIterator()): nil for a nil
\* merged iterator.
NewTSDBMetricIteratorAdapter(files) ==
    LET itr == FileSet_MetricIterator(files)
    IN  IF itr.nil THEN NilMitr
        ELSE [NilMitr EXCEPT !.kind = "adapter", !.files = files, !.itr = itr]

\* The adapter's Next, a being what the loop over the merged iterator gave.
AdapterNextReturns(mitr, a) ==
    [mitr |-> [mitr EXCEPT !.itr = a.itr, !.seen = @ \o a.pulled],
     name |-> a.ret, err |-> a.err]

\* cur.mitr.Next(): the iterator afterwards, the name (nil at the end) and
\* the error. The adapter keeps what it pulled from the merged iterator.
MetricIterator_Next(mitr) ==
    IF mitr.kind = "given"
    THEN IF mitr.pos < Len(mitr.list)
         THEN LET item == mitr.list[mitr.pos + 1]
              IN  [mitr |-> [mitr EXCEPT !.pos = @ + 1],
                   name |-> IF item.err THEN NilBytes ELSE SomeBytes(item.name),
                   err  |-> IF item.err THEN "metric iterator error" ELSE NoError]
         ELSE [mitr |-> mitr, name |-> NilBytes, err |-> NoError]
    ELSE AdapterNextReturns(mitr, MetricAdapterNext(mitr.itr, <<>>))

\* Mutant: a series whose key is empty is kept.
RECURSIVE SlurpKeysKeepEmpty(_, _, _)
SlurpKeysKeepEmpty(ids, i, keys) ==
    IF i > Len(ids) THEN keys
    ELSE SlurpKeysKeepEmpty(ids, i + 1, Append(keys, SeriesFile_SeriesKey(ids[i])))

\* `for { elem, err := sitr.Next() ... }` over the IDs before the end or
\* the failure: the keys appended, empty keys skipped.
RECURSIVE SlurpKeys(_, _, _)
SlurpKeys(ids, i, keys) ==
    IF i > Len(ids) THEN keys
    ELSE LET key == SeriesFile_SeriesKey(ids[i])
         IN  SlurpKeys(ids, i + 1, IF key.empty THEN keys ELSE Append(keys, key))

\* seriesCursor.readSeriesKeys, res being what the index set resolves the
\* name to: the cursor afterwards, the error, and whether keys were read.
seriesCursor_readSeriesKeys(cur, res) ==
    IF res.err
    THEN [cur |-> cur, err |-> "series resolution error", read |-> FALSE]
    ELSE IF res.nil
    THEN [cur |-> cur, err |-> NoError, read |-> FALSE]
    ELSE LET keys == SlurpKeys(res.ids, 1, <<>>)
         IN  IF res.fail
             THEN [cur |-> [cur EXCEPT !.ofs = 0, !.keys = keys],
                   err |-> "series id iterator error", read |-> TRUE]
             ELSE [cur |-> [cur EXCEPT !.ofs = 0, !.keys = SortSeriesKeys(keys)],
                   err |-> NoError, read |-> TRUE]

\* What Next notes for a metric it pulled: the name, the keys read for it,
\* the error, and the rows of the batch before that were not yet returned.
Batch(cur, name, r) ==
    [name |-> name, keys |-> IF r.read THEN r.cur.keys ELSE <<>>,
     err |-> r.err, left |-> Len(cur.keys) - cur.ofs]

\* The `for` loop of Next: the cursor and the metric iterator afterwards,
\* the row and the error returned, and the metrics pulled on the way.
\* NextMetric is the loop body once the batch is used up, m being what
\* cur.mitr.Next() returned.
RECURSIVE NextLoop(_, _, _, _)
RECURSIVE NextMetric(_, _, _, _)
NextMetric(cur, m, index, pulls) ==
    IF m.err # NoError
    THEN [cur |-> cur, mitr |-> m.mitr, row |-> NilRow, err |-> m.err,
          pulls |-> pulls]
    ELSE IF m.name.nil
    THEN [cur |-> cur, mitr |-> m.mitr, row |-> NilRow, err |-> NoError,
          pulls |-> pulls]
    ELSE LET r == seriesCursor_readSeriesKeys(cur, index[m.name.b])
             b == Append(pulls, Batch(cur, m.name.b, r))
         IN  IF r.err # NoError
             THEN [cur |-> r.cur, mitr |-> m.mitr, row |-> NilRow,
                   err |-> r.err, pulls |-> b]
             ELSE NextLoop(r.cur, m.mitr, index, b)

NextLoop(cur, mitr, index, pulls) ==
    IF cur.ofs = Len(cur.keys)
    THEN NextMetric(cur, MetricIterator_Next(mitr), index, pulls)
    ELSE LET row == ParseSeriesKey(cur.keys[cur.ofs + 1])
         IN  [cur |-> [cur EXCEPT !.row = row, !.ofs = @ + 1], mitr |-> mitr,
              row |-> row, err |-> NoError, pulls |-> pulls]

\* Mutant: the end of the metric iterator is reported as an error.
seriesCursor_NextEOF(cur, mitr, index) ==
    LET n == NextLoop(cur, mitr, index, <<>>)
    IN  IF n.row.nil /\ n.err = NoError THEN [n EXCEPT !.err = "EOF"] ELSE n

\* seriesCursor.Next
seriesCursor_Next(cur, mitr, index) == NextLoop(cur, mitr, index, <<>>)

\* Mutant: the metric iterator is closed by every Close call.
seriesCursor_CloseEveryTime(cur, mitr, closeErr) ==
    IF mitr.kind # "nil"
    THEN [cur |-> [cur EXCEPT !.done = 1],
          mitr |-> [mitr EXCEPT !.closes = @ + 1],
          inner |-> closeErr, ret |-> closeErr]
    ELSE [cur |-> [cur EXCEPT !.done = 1], mitr |-> mitr,
          inner |-> "not called", ret |-> NoError]

\* seriesCursor.Close, closeErr being what cur.mitr.Close() returns: the
\* cursor and the iterator afterwards, what mitr.Close() returned if it was
\* called, and the error returned.
seriesCursor_Close(cur, mitr, closeErr) ==
    IF cur.done = 0
    THEN IF mitr.kind # "nil"
         THEN [cur |-> [cur EXCEPT !.done = 1],
               mitr |-> [mitr EXCEPT !.closes = @ + 1],
               inner |-> closeErr, ret |-> closeErr]
         ELSE [cur |-> [cur EXCEPT !.done = 1], mitr |-> mitr,
               inner |-> "not called", ret |-> NoError]
    ELSE [cur |-> cur, mitr |-> mitr, inner |-> "not called", ret |-> NoError]

\* What mitr.Close() can return: the adapter's Close always returns nil.
CloseErrors(mitr) ==
    IF mitr.kind = "given" THEN {NoError, "close error"} ELSE {NoError}

NewCursor == [keys |-> <<>>, ofs |-> 0, row |-> NilRow, done |-> 0]

IdleCursor ==
    /\ kIndex = <<>>
    /\ kMitr = NilMitr
    /\ kCur = NewCursor
    /\ kOut = <<>>
    /\ kBatches = <<>>
    /\ kCloses = <<>>
    /\ kPanic = "idle"

\* (nil, nil) was returned by the last two Next calls.
EndedTwice ==
    /\ Len(kOut) >= 2
    /\ \A i \in {Len(kOut) - 1, Len(kOut)} :
          kOut[i].row.nil /\ kOut[i].err = NoError

\* Next returned n; look is what cur.mitr.Next() would have returned to a
\* call made instead of it.
NextReturns(n, look) ==
    /\ kCur' = n.cur
    /\ kMitr' = n.mitr
    /\ kOut' = Append(kOut,
           [row |-> n.row, err |-> n.err,
            batch |-> Len(kBatches) + Len(n.pulls),
            exhausted |-> /\ kCur.ofs = Len(kCur.keys)
                          /\ look.name.nil
                          /\ look.err = NoError])
    /\ kBatches' = kBatches \o n.pulls
    /\ UNCHANGED kPanic

\* The caller calls Next on an open cursor; with a nil cur.mitr the call
\* `cur.mitr.Next()` is a nil dereference.
CursorNext ==
    /\ kPanic = NoPanic
    /\ kCur.done = 0
    /\ ~EndedTwice
    /\ IF kMitr.kind = "nil"
       THEN /\ kPanic' = "nil pointer dereference"
            /\ UNCHANGED <<kMitr, kCur, kOut, kBatches>>
       ELSE NextReturns(seriesCursor_Next(kCur, kMitr, kIndex),
                        MetricIterator_Next(kMitr))
    /\ UNCHANGED <<kIndex, kCloses>>
    /\ UNCHANGED <<tvVars, mVars, fsVars, cVars, rVars, sVars, nVars, xVars, lVars, gVars, pVars, eVars, wVars, zVars>>

\* The caller calls Close.
CursorClose ==
    /\ kPanic = NoPanic
    /\ Len(kCloses) < MaxCursorCloses
    /\ \E closeErr \in CloseErrors(kMitr) :
          LET c == seriesCursor_Close(kCur, kMitr, closeErr)
          IN  /\ kCur' = c.cur
              /\ kMitr' = c.mitr
              /\ kCloses' = Append(kCloses, [ret |-> c.ret, inner |-> c.inner])
    /\ UNCHANGED <<kIndex, kOut, kBatches, kPanic>>
    /\ UNCHANGED <<tvVars, mVars, fsVars, cVars, rVars, sVars, nVars, xVars, lVars, gVars, pVars, eVars, wVars, zVars>>

-----------------------------------------------------------------------------
(* Claims about seriesCursor.                                              *)

\* The number of entries of a sequence that satisfy Test.
CountOf(seq, Test(_)) == Len(SelectSeq(seq, Test))

\* The reports of failure the cursor has had from its collaborators: the
\* errors among the items taken from a given metric iterator, and the
\* pulled metrics whose resolution or whose series-ID iterator failed.
MitrReports ==
    CountOf(SubSeq(kMitr.list, 1, kMitr.pos), LAMBDA item : item.err)

ResolveReports == CountOf(kBatches, LAMBDA b : kIndex[b.name].err)

SitrReports ==
    CountOf(kBatches, LAMBDA b : ~kIndex[b.name].err /\ ~kIndex[b.name].nil
                                  /\ kIndex[b.name].fail)

\* C15: a Next call made when the metric iterator is exhausted and no row
\* of the last batch is left returns (nil, nil), and so does every call
\* after a (nil, nil); a call returns an error only for a failure the
\* metric iterator, the series resolution or the series-ID iterator
\* reported (one error per report), and then no row.
C15_EndIsNotAnError ==
    /\ \A i \in 1..Len(kOut) :
          /\ kOut[i].exhausted => (kOut[i].row.nil /\ kOut[i].err = NoError)
          /\ (kOut[i].row.nil /\ kOut[i].err = NoError) =>
                \A j \in i..Len(kOut) : kOut[j].row.nil /\ kOut[j].err = NoError
          /\ kOut[i].err # NoError => kOut[i].row.nil
          /\ kOut[i].err \in {NoError, "metric iterator error",
                              "series resolution error", "series id iterator error"}
    /\ CountOf(kOut, LAMBDA o : o.err = "metric iterator error") = MitrReports
    /\ CountOf(kOut, LAMBDA o : o.err = "series resolution error") = ResolveReports
    /\ CountOf(kOut, LAMBDA o : o.err = "series id iterator error") = SitrReports

\* C15 witness: rows were returned, a call failed, and at the end Next
\* returned (nil, nil) twice.
C15_Witness ==
    /\ EndedTwice
    /\ kOut[Len(kOut)].exhausted
    /\ \E i \in 1..Len(kOut) : ~kOut[i].row.nil
    /\ \E i \in 1..Len(kOut) : kOut[i].err # NoError

\* C16: over any number of Close calls the metric iterator is closed at
\* most once: the first call closes it (if there is one) and returns what
\* mitr.Close() returned, every later call closes nothing and returns nil.
C16_ClosesOnce ==
    /\ kMitr.closes <= 1
    /\ kCloses # <<>> =>
          /\ kMitr.kind # "nil" => (kMitr.closes = 1 /\ kCloses[1].inner # "not called")
          /\ kCloses[1].inner # "not called" => kCloses[1].ret = kCloses[1].inner
    /\ \A i \in 2..Len(kCloses) :
          kCloses[i].inner = "not called" /\ kCloses[i].ret = NoError

\* C16 witness: the first Close returned the iterator's error, the second
\* returned nil.
C16_Witness ==
    /\ Len(kCloses) = 2
    /\ kCloses[1].ret = "close error"
    /\ kCloses[2].ret = NoError
    /\ kOut # <<>>

\* The rows returned so far.
RowsOut ==
    LET rows == SelectSeq(kOut, LAMBDA o : ~o.row.nil)
    IN  [i \in 1..Len(rows) |-> rows[i].row]

\* The rows returned so far from the b-th batch.
RowsOfBatch(b) ==
    LET rows == SelectSeq(kOut, LAMBDA o : ~o.row.nil /\ o.batch = b)
    IN  [i \in 1..Len(rows) |-> rows[i].row]

SortedRows(rows) ==
    \A i \in 1..(Len(rows) - 1) : CompareSeriesKeys(rows[i], rows[i + 1]) <= 0

\* C17: a metric is pulled only when no row of the batch before is left,
\* the rows of every batch are returned in sorted key order, and when the
\* names pulled are increasing the rows returned are non-decreasing by
\* (Name, Tags).
C17_SortedBatches ==
    /\ \A i \in 1..Len(kBatches) :
          /\ kBatches[i].left = 0
          /\ SortedRows(RowsOfBatch(i))
    /\ (\A i \in 1..(Len(kBatches) - 1) :
            BytesCompare(kBatches[i].name, kBatches[i + 1].name) = -1)
          => SortedRows(RowsOut)

\* The scenario of C18: the newer file A deletes metric cpu (<<1>>), the
\* older file B holds it, and the index resolves cpu to series.
CpuScenario ==
    /\ kMitr.kind = "adapter"
    /\ Len(kMitr.files) = 2
    /\ kMitr.files[1].elems = <<[key |-> <<1>>, deleted |-> TRUE]>>
    /\ kMitr.files[2].elems = <<[key |-> <<1>>, deleted |-> FALSE]>>
    /\ ~kIndex[<<1>>].err /\ ~kIndex[<<1>>].nil /\ kIndex[<<1>>].ids # <<>>

\* C18: in that scenario the merged metric iterator yields cpu as a deleted
\* group, the adapter never yields cpu, and the cursor returns no row
\* named cpu.
C18_TombstonedMetricHidden ==
    CpuScenario =>
        /\ \A i \in 1..Len(kMitr.seen) :
              MetricMergeElem_Name(kMitr.seen[i]) = SomeBytes(<<1>>)
                  => MetricMergeElem_Deleted(kMitr.seen[i])
        /\ kOut # <<>> =>
              \E i \in 1..Len(kMitr.seen) :
                  /\ MetricMergeElem_Name(kMitr.seen[i]) = SomeBytes(<<1>>)
                  /\ Len(kMitr.seen[i]) = 2
        /\ \A i \in 1..Len(kBatches) : kBatches[i].name # <<1>>
        /\ \A i \in 1..Len(kOut) : kOut[i].row.nil

\* C18 witness: in the scenario, with cpu resolving to two series, the
\* cursor has been read to its end.
C18_Witness ==
    /\ CpuScenario
    /\ Len(kIndex[<<1>>].ids) >= 2
    /\ EndedTwice
    /\ Len(kMitr.seen) = 1

-----------------------------------------------------------------------------
(* FileSet.MetricTagKeysByExpr and tagKeysByFilter, for one metric: its    *)
(* tag keys are what FileSet.TagKeyIterator(name) merges from the files.   *)

\* Longest file list the expression is evaluated on.
MaxExprFiles == 2

\* What one file holds for the metric: no tag block at all (a nil
\* iterator), or some keys, deleted or not.
ExprFile ==
    {[nil |-> TRUE, elems |-> <<>>]} \cup
    {[nil |-> FALSE, elems |-> FileElems(S, D)] :
        <<S, D>> \in {<<{}, {}>>, <<{<<1>>}, {}>>, <<{<<1>>}, {<<1>>}>>,
                      <<{<<2>>}, {}>>, <<{<<1>>, <<2>>}, {}>>}}

\* error(nil)
NilError == <<>>

\* fmt.Errorf(format, arg)
Errorf(format, arg) == <<format, arg>>

\* regexp.Regexp.Match: a compiled expression is the set of byte strings it
\* matches.
Regexp_Match(regex, b) == b \in regex

\* The map[string]struct{} results: [nil, keys, err].
NilKeys(err) == [nil |-> TRUE, keys |-> {}, err |-> err]

SomeKeys(keys) == [nil |-> FALSE, keys |-> keys, err |-> NilError]

\* `for e := itr.Next(); e != nil; e = itr.Next() { m[string(e.Key())] = ... }`
RECURSIVE AllKeysLoop(_, _)
AllKeysLoop(itr, m) ==
    LET n == TagKeyMergeNext(itr)
    IN  IF n.nil THEN m
        ELSE AllKeysLoop(n.itr, m \cup {TagKeyMergeElem_Key(n.ret).b})

\* The loop of tagKeysByFilter.
RECURSIVE FilterLoop(_, _, _, _, _)
FilterLoop(itr, op, val, regex, ss) ==
    LET n == TagKeyMergeNext(itr)
    IN  IF n.nil THEN ss
        ELSE LET key     == TagKeyMergeElem_Key(n.ret).b
                 matched == CASE op = "EQ"       -> key = val
                              [] op = "NEQ"      -> key # val
                              [] op = "EQREGEX"  -> Regexp_Match(regex, key)
                              [] op = "NEQREGEX" -> ~Regexp_Match(regex, key)
                              [] OTHER           -> FALSE
             IN  FilterLoop(n.itr, op, val, regex,
                            IF matched THEN ss \cup {key} ELSE ss)

\* Mutant: the NEQ case tests for equality.
FileSet_tagKeysByFilterNeqAsEq(files, op, val, regex) ==
    LET itr == FileSet_TagKeyIterator(files)
    IN  IF itr.nil THEN {}
        ELSE FilterLoop(itr, IF op = "NEQ" THEN "EQ" ELSE op, val, regex, {})

\* FileSet.tagKeysByFilter: the keys of the metric the comparison accepts.
FileSet_tagKeysByFilter(files, op, val, regex) ==
    LET itr == FileSet_TagKeyIterator(files)
    IN  IF itr.nil THEN {} ELSE FilterLoop(itr, op, val, regex, {})

cnosql_IsRegexOp(op) == op \in {"EQREGEX", "NEQREGEX"}

unionStringSets(a, b) == a \cup b

intersectStringSets(a, b) == a \cap b

\* Mutant: an AND/OR node returns its left operand's key set.
CombineKeySetsLeft(op, lhs, rhs) ==
    IF ~lhs.nil THEN lhs
    ELSE IF ~rhs.nil THEN rhs
    ELSE NilKeys(NilError)

\* Mutant: an operand without a key set counts as the empty set.
CombineKeySetsNilAsEmpty(op, lhs, rhs) ==
    IF op = "OR"
    THEN SomeKeys(unionStringSets(lhs.keys, rhs.keys))
    ELSE SomeKeys(intersectStringSets(lhs.keys, rhs.keys))

\* The end of the AND/OR case, lhs and rhs being what the operands
\* evaluated to without error.
CombineKeySets(op, lhs, rhs) ==
    IF ~lhs.nil /\ ~rhs.nil
    THEN IF op = "OR"
         THEN SomeKeys(unionStringSets(lhs.keys, rhs.keys))
         ELSE SomeKeys(intersectStringSets(lhs.keys, rhs.keys))
    ELSE IF ~lhs.nil THEN lhs
    ELSE IF ~rhs.nil THEN rhs
    ELSE NilKeys(NilError)

\* FileSet.MetricTagKeysByExpr: [nil, keys, err], nil meaning that no key
\* set is returned.
RECURSIVE FileSet_MetricTagKeysByExpr(_, _)
FileSet_MetricTagKeysByExpr(files, expr) ==
    IF expr.type = "nil"
    THEN LET itr == FileSet_TagKeyIterator(files)
         IN  SomeKeys(IF itr.nil THEN {} ELSE AllKeysLoop(itr, {}))
    ELSE IF expr.type = "BinaryExpr"
    THEN IF expr.op \in {"EQ", "NEQ", "EQREGEX", "NEQREGEX"}
         THEN LET tag == expr.args[1]
                  rhs == expr.args[2]
              IN  IF tag.type # "VarRef"
                  THEN NilKeys(Errorf("left side of '%s' must be a tag key", expr.op))
                  ELSE IF tag.val # "_tagKey"
                  THEN NilKeys(NilError)
                  ELSE IF cnosql_IsRegexOp(expr.op)
                  THEN IF rhs.type # "RegexLiteral"
                       THEN NilKeys(Errorf("right side of '%s' must be a regular expression",
                                           expr.op))
                       ELSE SomeKeys(FileSet_tagKeysByFilter(files, expr.op, <<>>, rhs.val))
                  ELSE IF rhs.type # "StringLiteral"
                       THEN NilKeys(Errorf("right side of '%s' must be a tag value string",
                                           expr.op))
                       ELSE SomeKeys(FileSet_tagKeysByFilter(files, expr.op, rhs.val, {}))
         ELSE IF expr.op \in {"AND", "OR"}
         THEN LET lhs == FileSet_MetricTagKeysByExpr(files, expr.args[1])
                  rhs == FileSet_MetricTagKeysByExpr(files, expr.args[2])
              IN  IF lhs.err # NilError THEN NilKeys(lhs.err)
                  ELSE IF rhs.err # NilError THEN NilKeys(rhs.err)
                  ELSE CombineKeySets(expr.op, lhs, rhs)
         ELSE NilKeys(Errorf("invalid operator", ""))
    ELSE IF expr.type = "ParenExpr"
    THEN FileSet_MetricTagKeysByExpr(files, expr.args[1])
    ELSE NilKeys(Errorf("%#v", expr.type))

\* The leaf comparisons handed in: every comparison operator with a left
\* side that is the pseudo-tag, another tag or no tag reference at all, and
\* a right side that is a string, a regular expression or neither.
ExprLeaves ==
    {BinaryExpr(op, l, r) :
        op \in {"EQ", "NEQ", "EQREGEX", "NEQREGEX"},
        l \in {VarRef("_tagKey"), VarRef("host"), StringLiteral(<<1>>)},
        r \in {StringLiteral(<<1>>), RegexLiteral({<<1>>, <<1, 2>>}), VarRef("host")}}

\* The operands of the compound expressions handed in.
ExprOperands ==
    {NilExpr, Call(VarRef("host")),
     BinaryExpr("EQ", VarRef("_tagKey"), StringLiteral(<<1>>)),
     BinaryExpr("NEQ", VarRef("_tagKey"), StringLiteral(<<2>>)),
     BinaryExpr("EQREGEX", VarRef("_tagKey"), RegexLiteral({<<2>>})),
     BinaryExpr("EQ", VarRef("host"), StringLiteral(<<1>>)),
     BinaryExpr("NEQ", StringLiteral(<<1>>), StringLiteral(<<1>>)),
     BinaryExpr("NEQREGEX", VarRef("_tagKey"), StringLiteral(<<1>>))}

\* The expressions handed in: none, a leaf, or a tree of AND, OR and another
\* operator over the operands, also in parentheses.
ExprInputs ==
    LET compound == {BinaryExpr(op, l, r) :
                        op \in {"AND", "OR", "LT"}, l \in ExprOperands, r \in ExprOperands}
    IN  ExprLeaves \cup ExprOperands \cup compound
          \cup {ParenExpr(e) : e \in ExprOperands \cup compound}

NotEvaluated == [called |-> FALSE, nil |-> TRUE, keys |-> {}, err |-> NilError]

IdleTagKeys ==
    /\ xFiles = <<>>
    /\ xExpr = NilExpr
    /\ xRet = NotEvaluated

CallMetricTagKeysByExpr ==
    /\ ~xRet.called
    /\ LET r == FileSet_MetricTagKeysByExpr(xFiles, xExpr)
       IN  xRet' = [called |-> TRUE, nil |-> r.nil, keys |-> r.keys, err |-> r.err]
    /\ UNCHANGED <<xFiles, xExpr>>
    /\ UNCHANGED <<tvVars, mVars, fsVars, cVars, rVars, sVars, nVars, kVars, lVars, gVars, pVars, eVars, wVars, zVars>>

-----------------------------------------------------------------------------
(* Claims about FileSet.MetricTagKeysByExpr.                               *)

IsLeafOp(op) == op \in {"EQ", "NEQ", "EQREGEX", "NEQREGEX"}

\* C19: MetricTagKeysByExpr returns an error, not an empty or absent
\* result, for every leaf comparison (EQ, NEQ, EQREGEX, NEQREGEX) whose left
\* side is a tag reference other than "_tagKey".
C19_OtherTagIsAnError ==
    (/\ xRet.called
     /\ xExpr.type = "BinaryExpr"
     /\ IsLeafOp(xExpr.op)
     /\ xExpr.args[1].type = "VarRef"
     /\ xExpr.args[1].val # "_tagKey")
        => xRet.err # NilError

\* The cases C20 lists, for the expression as a whole.
InvalidOperator(e) == e.type = "BinaryExpr" /\ e.op \notin TagOps

LeftNotVarRef(e) ==
    e.type = "BinaryExpr" /\ IsLeafOp(e.op) /\ e.args[1].type # "VarRef"

RegexRightNotRegex(e) ==
    e.type = "BinaryExpr" /\ cnosql_IsRegexOp(e.op) /\ e.args[2].type # "RegexLiteral"

EqualityRightNotString(e) ==
    e.type = "BinaryExpr" /\ e.op \in {"EQ", "NEQ"} /\ e.args[2].type # "StringLiteral"

NotBinaryNorParen(e) == e.type \notin {"nil", "BinaryExpr", "ParenExpr"}

OperandFails(e) ==
    /\ e.type = "BinaryExpr"
    /\ e.op \in {"AND", "OR"}
    /\ \E i \in 1..2 : FileSet_MetricTagKeysByExpr(xFiles, e.args[i]).err # NilError

\* C20: MetricTagKeysByExpr returns an error and no key set for an operator
\* outside {EQ, NEQ, EQREGEX, NEQREGEX, AND, OR}, for a leaf whose left side
\* is not a variable reference, for a regex operator whose right side is not
\* a regex literal, for an equality operator whose right side is not a
\* string literal, and for a non-nil expression that is neither binary nor
\* parenthesised; an AND/OR with a failing operand returns that operand's
\* error (the left one's first).
C20_InvalidPredicateIsAnError ==
    xRet.called =>
        /\ (\/ InvalidOperator(xExpr)
            \/ LeftNotVarRef(xExpr)
            \/ RegexRightNotRegex(xExpr)
            \/ EqualityRightNotString(xExpr)
            \/ NotBinaryNorParen(xExpr)) => (xRet.err # NilError /\ xRet.nil)
        /\ OperandFails(xExpr) =>
              LET lhs == FileSet_MetricTagKeysByExpr(xFiles, xExpr.args[1])
                  rhs == FileSet_MetricTagKeysByExpr(xFiles, xExpr.args[2])
              IN  /\ xRet.nil
                  /\ xRet.err = IF lhs.err # NilError THEN lhs.err ELSE rhs.err

\* The tag keys of the metric: the keys some file holds for it.
KeysOfMetric(files) ==
    UNION {{files[f].elems[i].key : i \in 1..Len(files[f].elems)} :
              f \in 1..Len(files)}

\* e is the comparison of "_tagKey" with a string by op.
IsTagKeyLeaf(e, op) ==
    /\ e.type = "BinaryExpr"
    /\ e.op = op
    /\ e.args[1] = VarRef("_tagKey")
    /\ e.args[2].type = "StringLiteral"

IsKeySet(r) == ~r.nil /\ r.err = NilError

\* C22: an AND/OR node whose operands both evaluate to key sets returns
\* their intersection for AND and their union for OR; the node with its
\* operands exchanged returns the same, and with twice the same operand it
\* returns what the operand evaluates to.
C22_AndIntersectsOrUnions ==
    (xRet.called /\ xExpr.type = "BinaryExpr" /\ xExpr.op \in {"AND", "OR"}) =>
        LET l    == FileSet_MetricTagKeysByExpr(xFiles, xExpr.args[1])
            r    == FileSet_MetricTagKeysByExpr(xFiles, xExpr.args[2])
            swap == FileSet_MetricTagKeysByExpr(xFiles,
                        BinaryExpr(xExpr.op, xExpr.args[2], xExpr.args[1]))
            ret  == [nil |-> xRet.nil, keys |-> xRet.keys, err |-> xRet.err]
        IN  (IsKeySet(l) /\ IsKeySet(r)) =>
                /\ ret = SomeKeys(IF xExpr.op = "AND" THEN l.keys \cap r.keys
                                  ELSE l.keys \cup r.keys)
                /\ swap = ret
                /\ xExpr.args[1] = xExpr.args[2] => ret = l

\* An AND of two comparisons was evaluated whose key sets differ and are
\* both non-empty.
C22_Witness ==
    /\ xRet.called
    /\ xExpr.type = "BinaryExpr"
    /\ xExpr.op = "AND"
    /\ LET l == FileSet_MetricTagKeysByExpr(xFiles, xExpr.args[1])
           r == FileSet_MetricTagKeysByExpr(xFiles, xExpr.args[2])
       IN  /\ IsKeySet(l) /\ IsKeySet(r)
           /\ l.keys # {} /\ r.keys # {}
           /\ l.keys # r.keys
           /\ xRet.keys # l.keys

-----------------------------------------------------------------------------
(* FileSet.Metric, HasTagKey and HasTagValue on any file list. A file is    *)
(* what it holds at the level of the lookup: its metrics by name, the tag  *)
(* keys of the metric asked for, or the values of the tag key asked for.   *)

\* Longest file list a lookup is made on.
MaxLookupFiles == 2

LookupFile ==
    UNION {{[nil |-> FALSE, elems |-> FileElems(S, D)] : D \in SUBSET S} :
              S \in SUBSET SnapKeys}

\* File.TagValue(name, key, value): the file's element with that value, or
\* nil.
File_TagValue(content, f, value) == File_Metric(content, f, value)

\* FileSet.HasTagValue from file i on.
RECURSIVE HasTagValueLoop(_, _, _)
HasTagValueLoop(files, value, i) ==
    IF i > Len(files) THEN FALSE
    ELSE LET e == File_TagValue(files[i], i, value)
         IN  IF ~e.nil THEN ~e.deleted
             ELSE HasTagValueLoop(files, value, i + 1)

\* FileSet.HasTagValue
FileSet_HasTagValue(files, value) == HasTagValueLoop(files, value, 1)

NoLookup == [op |-> "none", key |-> <<>>, elem |-> NoElem, has |-> FALSE]

IdleLookup ==
    /\ lFiles = <<>>
    /\ lRet = NoLookup

CallMetric(name) ==
    /\ lRet' = [op |-> "Metric", key |-> name,
                elem |-> FileSet_Metric(lFiles, name), has |-> FALSE]
    /\ UNCHANGED lFiles
    /\ UNCHANGED <<tvVars, mVars, fsVars, cVars, rVars, sVars, nVars, kVars, xVars, gVars, pVars, eVars, wVars, zVars>>

CallHasTagKey(key) ==
    /\ lRet' = [op |-> "HasTagKey", key |-> key,
                elem |-> NoElem, has |-> FileSet_HasTagKey(lFiles, key)]
    /\ UNCHANGED lFiles
    /\ UNCHANGED <<tvVars, mVars, fsVars, cVars, rVars, sVars, nVars, kVars, xVars, gVars, pVars, eVars, wVars, zVars>>

CallHasTagValue(value) ==
    /\ lRet' = [op |-> "HasTagValue", key |-> value,
                elem |-> NoElem, has |-> FileSet_HasTagValue(lFiles, value)]
    /\ UNCHANGED lFiles
    /\ UNCHANGED <<tvVars, mVars, fsVars, cVars, rVars, sVars, nVars, kVars, xVars, gVars, pVars, eVars, wVars, zVars>>

-----------------------------------------------------------------------------
(* Claims about the point lookups.                                         *)

\* The files that hold an element for key.
Holders(files, key) ==
    {i \in 1..Len(files) : \E j \in 1..Len(files[i].elems) : files[i].elems[j].key = key}

\* The newest of them: the first in the list.
Newest(H) == CHOOSE i \in H : \A j \in H : i <= j

\* Whether file i marks its element for key deleted.
MarksDeleted(files, i, key) ==
    \E j \in 1..Len(files[i].elems) :
        files[i].elems[j].key = key /\ files[i].elems[j].deleted

\* C23: FileSet.Metric(name) is decided by the newest file holding an
\* element for name: that file's element if it is not deleted, nil if it is
\* deleted (whatever older files hold), and nil if no file holds one.
C23_NewestFileDecidesMetric ==
    lRet.op = "Metric" =>
        LET H == Holders(lFiles, lRet.key)
        IN  IF H = {} THEN lRet.elem = NoElem
            ELSE IF MarksDeleted(lFiles, Newest(H), lRet.key) THEN lRet.elem = NoElem
            ELSE lRet.elem = Elem(Newest(H), lRet.key, FALSE)

\* Metric returned nil for a name the newest holder deletes and an older
\* file holds undeleted.
C23_Witness ==
    /\ lRet.op = "Metric"
    /\ lRet.elem = NoElem
    /\ \E i \in Holders(lFiles, lRet.key) :
          i # Newest(Holders(lFiles, lRet.key)) /\ ~MarksDeleted(lFiles, i, lRet.key)

\* C24: HasTagKey and HasTagValue return true exactly when the newest file
\* holding an element for the key (the value) does not mark it deleted;
\* false when no file holds one.
C24_NewestFileDecidesHas ==
    lRet.op \in {"HasTagKey", "HasTagValue"} =>
        LET H == Holders(lFiles, lRet.key)
        IN  lRet.has = (H # {} /\ ~MarksDeleted(lFiles, Newest(H), lRet.key))

\* HasTagValue returned false for a value the newest holder deletes and an
\* older file holds undeleted.
C24_Witness ==
    /\ lRet.op = "HasTagValue"
    /\ ~lRet.has
    /\ \E i \in Holders(lFiles, lRet.key) :
          i # Newest(Holders(lFiles, lRet.key)) /\ ~MarksDeleted(lFiles, i, lRet.key)

-----------------------------------------------------------------------------
(* FileSet.LastContiguousIndexFilesByLevel, and MustReplace on what it     *)
(* returns. The files of the FileSet are numbered by position.             *)

\* Longest file list the compaction scheduler looks at.
MaxLevelFiles == 3

\* Highest compaction level.
MaxLevel == 2

\* `for i := len(fs.files) - 1; i >= 0; i--` from 0-based i on, a being the
\* files collected so far: files above the level are passed over, the first
\* file below it ends the loop.
RECURSIVE LastContiguousLoop(_, _, _, _)
LastContiguousLoop(levels, level, i, a) ==
    IF i < 0 THEN a
    ELSE IF level < levels[i + 1] THEN LastContiguousLoop(levels, level, i - 1, a)
    ELSE IF level > levels[i + 1] THEN a
    ELSE LastContiguousLoop(levels, level, i - 1, <<i + 1>> \o a)

\* Mutant: the loop ends at the first file of another level, above or below.
FileSet_LastContiguousStopAbove(levels, level) ==
    IF level = 0 THEN <<>>
    ELSE LastContiguousLoop(
             [i \in 1..Len(levels) |-> IF levels[i] > level THEN 0 ELSE levels[i]],
             level, Len(levels) - 1, <<>>)

\* FileSet.LastContiguousIndexFilesByLevel: the files returned (nil is the
\* empty list).
FileSet_LastContiguousIndexFilesByLevel(levels, level) ==
    IF level = 0 THEN <<>>
    ELSE LastContiguousLoop(levels, level, Len(levels) - 1, <<>>)

NoLevelCall == [op |-> "none", level |-> 0, run |-> <<>>, panic |-> NoPanic]

IdleLevel ==
    /\ gLevels = <<>>
    /\ gRet = NoLevelCall

\* The FileSet whose files have these levels.
LevelFileSet == NewFileSet("levels", "sfile", [i \in 1..Len(gLevels) |-> i])

\* The scheduler asks for the files to merge at a level.
CallLastContiguous(level) ==
    /\ gRet' = [op |-> "LastContiguousIndexFilesByLevel", level |-> level,
                run |-> FileSet_LastContiguousIndexFilesByLevel(gLevels, level),
                panic |-> NoPanic]
    /\ UNCHANGED gLevels
    /\ UNCHANGED <<tvVars, mVars, fsVars, cVars, rVars, sVars, nVars, kVars, xVars, lVars, pVars, eVars, wVars, zVars>>

\* The compactor replaces the files it was given by a new file.
CallMustReplaceRun ==
    /\ gRet.op = "LastContiguousIndexFilesByLevel"
    /\ gRet.run # <<>>
    /\ gRet' = [gRet EXCEPT
                   !.op = "MustReplace",
                   !.panic = FileSet_MustReplace(LevelFileSet, gRet.run,
                                                 Len(gLevels) + 1).panic]
    /\ UNCHANGED gLevels
    /\ UNCHANGED <<tvVars, mVars, fsVars, cVars, rVars, sVars, nVars, kVars, xVars, lVars, pVars, eVars, wVars, zVars>>

-----------------------------------------------------------------------------
(* Claims about LastContiguousIndexFilesByLevel.                           *)

\* The last maximal run of consecutive files of that level: from the last
\* file of the level back to the nearest file of another level.
LastRun(levels, level) ==
    LET at == {i \in 1..Len(levels) : levels[i] = level}
    IN  IF at = {} THEN <<>>
        ELSE LET last  == CHOOSE i \in at : \A j \in at : j <= i
                 first == CHOOSE i \in 1..last :
                              /\ \A k \in i..last : levels[k] = level
                              /\ (i > 1 => levels[i - 1] # level)
             IN  [k \in 1..(last - first + 1) |-> first + k - 1]

LevelsAscend(levels) == \A i \in 1..(Len(levels) - 1) : levels[i] <= levels[i + 1]

-----------------------------------------------------------------------------
(* tagKeyMergeElem.TagValueIterator. A merged tag key element p is the     *)
(* list of its constituents, newest file first; a constituent is deleted   *)
(* or not and has the tag values its file holds for the key.               *)

\* Most constituents of a merged tag key element.
MaxConstituents == 2

TagKeyElems ==
    {[deleted |-> d, values |-> FileElems(S, D)] :
        d \in BOOLEAN, <<S, D>> \in {<<S, D>> \in (SUBSET SnapKeys) \X (SUBSET SnapKeys) :
                                         D \subseteq S}}

\* e.TagValueIterator() of the i-th constituent.
TagKeyElem_TagValueIterator(p, i) == [file |-> i, elems |-> p[i].values]

\* Mutant: the loop has no break.
tagKeyMergeElem_TagValueIteratorAll(p) ==
    MergeTagValueIterators([i \in 1..Len(p) |-> TagKeyElem_TagValueIterator(p, i)])

\* `for _, e := range p { ...; a = append(a, itr); if e.Deleted() { break } }`
\* from the i-th constituent on.
RECURSIVE UntilTombstone(_, _)
UntilTombstone(p, i) ==
    IF i > Len(p) THEN <<>>
    ELSE IF p[i].deleted THEN <<TagKeyElem_TagValueIterator(p, i)>>
    ELSE <<TagKeyElem_TagValueIterator(p, i)>> \o UntilTombstone(p, i + 1)

\* tagKeyMergeElem.TagValueIterator
tagKeyMergeElem_TagValueIterator(p) ==
    IF Len(p) = 0 THEN NilItr
    ELSE MergeTagValueIterators(UntilTombstone(p, 1))

IdleKeyElem ==
    /\ pElem = <<>>
    /\ pItr = NilItr
    /\ pHist = <<>>
    /\ pRet = "idle"

CallTagValueIterator ==
    /\ pRet = "none"
    /\ pItr' = tagKeyMergeElem_TagValueIterator(pElem)
    /\ pRet' = "itr"
    /\ UNCHANGED <<pElem, pHist>>
    /\ UNCHANGED <<tvVars, mVars, fsVars, cVars, rVars, sVars, nVars, kVars, xVars, lVars, gVars, eVars, wVars, zVars>>

\* Next() on the iterator returned, n being its outcome.
KeyElemReturns(n) ==
    /\ pItr' = n.itr
    /\ pHist' = IF n.nil THEN pHist ELSE Append(pHist, n.ret)
    /\ pRet' = IF n.nil THEN "nil" ELSE "group"
    /\ UNCHANGED pElem
    /\ UNCHANGED <<tvVars, mVars, fsVars, cVars, rVars, sVars, nVars, kVars, xVars, lVars, gVars, eVars, wVars, zVars>>

KeyElemValueNext ==
    /\ pRet \in {"itr", "group"}
    /\ ~pItr.nil
    /\ KeyElemReturns(TagValueMergeNext(pItr))

-----------------------------------------------------------------------------
(* Claims about tagKeyMergeElem.TagValueIterator.                          *)

\* The first constituent marked deleted, or the last one if none is.
FirstTombstone(p) ==
    IF \E i \in 1..Len(p) : p[i].deleted
    THEN CHOOSE i \in 1..Len(p) : p[i].deleted /\ \A j \in 1..(i - 1) : ~p[j].deleted
    ELSE Len(p)

\* The tag values the constituents of I hold.
ValuesOf(p, I) ==
    UNION {{p[i].values[j].key : j \in 1..Len(p[i].values)} : i \in I}

\* The values yielded so far.
ValuesYielded == {TagValueMergeElem_Value(pHist[k]).b : k \in 1..Len(pHist)}

\* C26: the TagValueIterator of a merged TagKeyElem merges the tag-value
\* iterators of the constituents from the newest up to and including the
\* first one marked deleted, and of no older one: a value held only by older
\* constituents is never yielded.
C26_ValuesUntilTombstone ==
    pRet \in {"itr", "group", "nil"} =>
        LET upTo == 1..FirstTombstone(pElem)
        IN  /\ pElem # <<>> =>
                  pItr.itrs = [i \in upTo |-> TagKeyElem_TagValueIterator(pElem, i)]
            /\ \A k \in 1..Len(pHist) : \A c \in 1..Len(pHist[k]) :
                  pHist[k][c].file \in upTo
            /\ ValuesYielded \subseteq ValuesOf(pElem, upTo)
            /\ pRet = "nil" => ValuesYielded = ValuesOf(pElem, upTo)

\* The iteration ended without a value that only a constituent older than
\* the first tombstoned one holds, after yielding some value.
C26_Witness ==
    /\ pRet = "nil"
    /\ pHist # <<>>
    /\ \E v \in ValuesOf(pElem, 1..Len(pElem)) : v \notin ValuesYielded

-----------------------------------------------------------------------------
(* The operations that ask every file and can fail: TagKeySeriesIDIterator, *)
(* TagValueSeriesIDIterator, MetricsSketches, SeriesSketches. A file is    *)
(* what its calls return; the error of a call names the call and the file. *)

\* Longest file list of an aggregation.
MaxAggFiles == 2

\* The error file i's call returns.
FileError(call, i) == <<call, i>>

\* A sketch: a HyperLogLog of the default precision (its registers), or an
\* estimator of another type or precision.
Plus(regs) == [kind |-> "hll", regs |-> regs]

hll_NewDefaultPlus == Plus(<<0, 0>>)

OtherSketch == [kind |-> "other", regs |-> <<0, 0>>]

\* The sketches a file returns: two registers, each empty or set.
Sketches == {Plus(<<a, b>>) : a \in 0..1, b \in 0..1} \cup {OtherSketch}

\* Sketch.Merge(other) on a default HyperLogLog h: every register becomes
\* the larger of the two; a sketch of another type or precision is refused.
Sketch_Merge(h, other) ==
    IF other.kind # h.kind
    THEN [h |-> h, err |-> "mismatched sketch"]
    ELSE [h   |-> Plus([r \in DOMAIN h.regs |->
                           IF other.regs[r] > h.regs[r] THEN other.regs[r] ELSE h.regs[r]]),
          err |-> "nil"]

\* What a file's series-ID call returns: an error, nil, or some ids.
CallFails == [err |-> TRUE, nil |-> TRUE, ids |-> {}]

CallNil == [err |-> FALSE, nil |-> TRUE, ids |-> {}]

CallIDs(ids) == [err |-> FALSE, nil |-> FALSE, ids |-> ids]

\* What a file's sketches call returns: an error, or a pair.
SketchesFail == [err |-> TRUE, s |-> hll_NewDefaultPlus, t |-> hll_NewDefaultPlus]

SketchPair(s, t) == [err |-> FALSE, s |-> s, t |-> t]

NoAggFile == [key |-> CallNil, tv |-> CallNil, tomb |-> CallIDs({}),
              sk |-> SketchPair(hll_NewDefaultPlus, hll_NewDefaultPlus)]

AggOps == {"TagKeySeriesIDIterator", "TagValueSeriesIDIterator",
           "MetricsSketches", "SeriesSketches"}

\* The files an operation is called on: only the calls it makes vary.
AggFiles(op) ==
    CASE op = "TagKeySeriesIDIterator" ->
            {[NoAggFile EXCEPT !.key = k] :
                k \in {CallFails, CallNil, CallIDs({1}), CallIDs({2})}}
      [] op = "TagValueSeriesIDIterator" ->
            {[NoAggFile EXCEPT !.tv = v, !.tomb = t] :
                v \in {CallFails, CallNil, CallIDs({1}), CallIDs({1, 2})},
                t \in {CallFails, CallIDs({}), CallIDs({1})}}
      [] OTHER ->
            {[NoAggFile EXCEPT !.sk = k] :
                k \in {SketchesFail} \cup {SketchPair(s, t) : s \in Sketches, t \in Sketches}}

\* The results: [nil (no iterator, no sketches), ids, s, t, err].
AggError(err) ==
    [nil |-> TRUE, ids |-> {}, s |-> hll_NewDefaultPlus, t |-> hll_NewDefaultPlus,
     err |-> err]

AggIterator(nil, ids) ==
    [nil |-> nil, ids |-> ids, s |-> hll_NewDefaultPlus, t |-> hll_NewDefaultPlus,
     err |-> NilError]

AggSketches(s, t) == [nil |-> FALSE, ids |-> {}, s |-> s, t |-> t, err |-> NilError]

\* tsdb.MergeSeriesIDIterators: nil for no iterators, else the ids of all.
MergeSeriesIDIterators(a) ==
    IF Len(a) = 0 THEN AggIterator(TRUE, {})
    ELSE AggIterator(FALSE, UNION {a[i] : i \in 1..Len(a)})

\* Mutant: a file whose call fails is passed over.
RECURSIVE TagKeySeriesLoopSkip(_, _, _)
TagKeySeriesLoopSkip(files, i, a) ==
    IF i > Len(files) THEN MergeSeriesIDIterators(a)
    ELSE IF files[i].key.err \/ files[i].key.nil
    THEN TagKeySeriesLoopSkip(files, i + 1, a)
    ELSE TagKeySeriesLoopSkip(files, i + 1, Append(a, files[i].key.ids))

FileSet_TagKeySeriesIDIteratorSkip(files) == TagKeySeriesLoopSkip(files, 1, <<>>)

\* `for _, f := range fs.files` of TagKeySeriesIDIterator from file i on.
RECURSIVE TagKeySeriesLoop(_, _, _)
TagKeySeriesLoop(files, i, a) ==
    IF i > Len(files) THEN MergeSeriesIDIterators(a)
    ELSE IF files[i].key.err
    THEN AggError(FileError("TagKeySeriesIDIterator", i))
    ELSE IF files[i].key.nil THEN TagKeySeriesLoop(files, i + 1, a)
    ELSE TagKeySeriesLoop(files, i + 1, Append(a, files[i].key.ids))

\* FileSet.TagKeySeriesIDIterator
FileSet_TagKeySeriesIDIterator(files) == TagKeySeriesLoop(files, 1, <<>>)

\* The error returns of TagValueSeriesIDIterator's loop, which runs from
\* the last file to the first and asks each file for its tag value set and
\* then for its tombstone set: the first error met, if any.
RECURSIVE TagValueLoopError(_, _)
TagValueLoopError(files, i) ==
    IF i < 1 THEN NilError
    ELSE IF files[i].tv.err THEN FileError("TagValueSeriesIDSet", i)
    ELSE IF files[i].tomb.err THEN FileError("TombstoneSeriesIDSet", i)
    ELSE TagValueLoopError(files, i - 1)

\* FileSet.TagValueSeriesIDIterator with its error returns.
FileSet_TagValueSeriesIDIterator(files) ==
    LET err == TagValueLoopError(files, Len(files))
    IN  IF err # NilError THEN AggError(err)
        ELSE AggIterator(FALSE,
                 TagValueSeriesIDIterator(
                     [i \in 1..Len(files) |->
                         [tv   |-> IF files[i].tv.nil THEN NilSet
                                   ELSE SomeSet(files[i].tv.ids),
                          tomb |-> files[i].tomb.ids]]))

\* Mutant: the tombstone sketch is merged into the first sketch as well.
RECURSIVE SketchesLoopMixed(_, _, _, _, _)
SketchesLoopMixed(call, files, i, sketch, tSketch) ==
    IF i > Len(files) THEN AggSketches(sketch, tSketch)
    ELSE IF files[i].sk.err THEN AggError(FileError(call, i))
    ELSE LET m  == Sketch_Merge(sketch, files[i].sk.s)
             mt == Sketch_Merge(m.h, files[i].sk.t)
             tm == Sketch_Merge(tSketch, files[i].sk.t)
         IN  IF m.err # "nil" THEN AggError(<<m.err, i>>)
             ELSE IF tm.err # "nil" THEN AggError(<<tm.err, i>>)
             ELSE SketchesLoopMixed(call, files, i + 1, mt.h, tm.h)

\* `for _, f := range fs.files` of MetricsSketches / SeriesSketches from
\* file i on, call being the file's method asked.
RECURSIVE SketchesLoop(_, _, _, _, _)
SketchesLoop(call, files, i, sketch, tSketch) ==
    IF i > Len(files) THEN AggSketches(sketch, tSketch)
    ELSE IF files[i].sk.err THEN AggError(FileError(call, i))
    ELSE LET m  == Sketch_Merge(sketch, files[i].sk.s)
             tm == Sketch_Merge(tSketch, files[i].sk.t)
         IN  IF m.err # "nil" THEN AggError(<<m.err, i>>)
             ELSE IF tm.err # "nil" THEN AggError(<<tm.err, i>>)
             ELSE SketchesLoop(call, files, i + 1, m.h, tm.h)

\* FileSet.MetricsSketches
FileSet_MetricsSketches(files) ==
    SketchesLoop("MetricsSketches", files, 1, hll_NewDefaultPlus, hll_NewDefaultPlus)

\* FileSet.SeriesSketches
FileSet_SeriesSketches(files) ==
    SketchesLoop("SeriesSketches", files, 1, hll_NewDefaultPlus, hll_NewDefaultPlus)

NotAggregated ==
    [called |-> FALSE, nil |-> TRUE, ids |-> {}, s |-> hll_NewDefaultPlus,
     t |-> hll_NewDefaultPlus, err |-> NilError]

IdleAggregate ==
    /\ eOp = "none"
    /\ eFiles = <<>>
    /\ eRet = NotAggregated

\* The operation op returns r.
AggregateReturns(op, r) ==
    /\ eOp = op
    /\ ~eRet.called
    /\ eRet' = [called |-> TRUE, nil |-> r.nil, ids |-> r.ids, s |-> r.s, t |-> r.t,
                err |-> r.err]
    /\ UNCHANGED <<eOp, eFiles>>
    /\ UNCHANGED <<tvVars, mVars, fsVars, cVars, rVars, sVars, nVars, kVars, xVars, lVars, gVars, pVars, wVars, zVars>>

CallTagKeySeriesIDIterator ==
    AggregateReturns("TagKeySeriesIDIterator", FileSet_TagKeySeriesIDIterator(eFiles))

CallTagValueSeriesIDIteratorErr ==
    AggregateReturns("TagValueSeriesIDIterator", FileSet_TagValueSeriesIDIterator(eFiles))

CallMetricsSketches ==
    AggregateReturns("MetricsSketches", FileSet_MetricsSketches(eFiles))

CallSeriesSketches ==
    AggregateReturns("SeriesSketches", FileSet_SeriesSketches(eFiles))

(* Claims about the sketches and the error returns. *)

IsSketchesOp == eOp \in {"MetricsSketches", "SeriesSketches"}

\* The largest value register r has in the sketches a of the files.
LargestRegister(a, r) ==
    IF a = {} THEN 0 ELSE CHOOSE v \in {h.regs[r] : h \in a} : \A h \in a : h.regs[r] <= v

\* The merge of a set of default sketches, in whatever order.
MergeOfAll(a) == Plus([r \in DOMAIN hll_NewDefaultPlus.regs |-> LargestRegister(a, r)])

\* The orders the files 1..n can be listed in.
FileOrders(n) == {p \in [1..n -> 1..n] : \A i, j \in 1..n : p[i] = p[j] => i = j}

SketchesOf(op, files) ==
    IF op = "MetricsSketches" THEN FileSet_MetricsSketches(files)
    ELSE FileSet_SeriesSketches(files)

\* C29: when MetricsSketches or SeriesSketches succeeds, the first sketch
\* returned is the merge of all files' first sketches and the second the
\* merge of all files' second (tombstone) sketches, neither holding anything
\* of the other, and listing the files in any other order returns the same
\* pair.
C29_SketchesMergedPairwise ==
    (eRet.called /\ IsSketchesOp /\ eRet.err = NilError) =>
        /\ ~eRet.nil
        /\ eRet.s = MergeOfAll({eFiles[i].sk.s : i \in 1..Len(eFiles)})
        /\ eRet.t = MergeOfAll({eFiles[i].sk.t : i \in 1..Len(eFiles)})
        /\ \A p \in FileOrders(Len(eFiles)) :
              LET r == SketchesOf(eOp, [i \in 1..Len(eFiles) |-> eFiles[p[i]]])
              IN  r.err = NilError /\ r.s = eRet.s /\ r.t = eRet.t

\* Two files whose sketches all differ were merged into two different sketches.
C29_Witness ==
    /\ eRet.called
    /\ eOp = "SeriesSketches"
    /\ eRet.err = NilError
    /\ Len(eFiles) = 2
    /\ eFiles[1].sk.s # eFiles[2].sk.s
    /\ eFiles[1].sk.t # eFiles[2].sk.t
    /\ eRet.s \notin {eFiles[1].sk.s, eFiles[2].sk.s}
    /\ eRet.t # hll_NewDefaultPlus
    /\ eRet.s # eRet.t

\* The calls an operation makes, in the order it makes them, each with
\* whether it fails and the error it then returns.
AggCalls(op, files) ==
    LET n == Len(files)
    IN  CASE op = "TagKeySeriesIDIterator" ->
                [k \in 1..n |->
                    [fails |-> files[k].key.err,
                     err   |-> FileError("TagKeySeriesIDIterator", k)]]
          [] op = "TagValueSeriesIDIterator" ->
                [k \in 1..(2 * n) |->
                    LET i == n - ((k - 1) \div 2)
                    IN  IF k % 2 = 1
                        THEN [fails |-> files[i].tv.err,
                              err   |-> FileError("TagValueSeriesIDSet", i)]
                        ELSE [fails |-> files[i].tomb.err,
                              err   |-> FileError("TombstoneSeriesIDSet", i)]]
          [] OTHER ->
                [k \in 1..(3 * n) |->
                    LET i == ((k - 1) \div 3) + 1
                    IN  CASE k % 3 = 1 ->
                                [fails |-> files[i].sk.err, err |-> FileError(op, i)]
                          [] k % 3 = 2 ->
                                [fails |-> ~files[i].sk.err /\ files[i].sk.s.kind # "hll",
                                 err   |-> <<"mismatched sketch", i>>]
                          [] OTHER ->
                                [fails |-> ~files[i].sk.err /\ files[i].sk.t.kind # "hll",
                                 err   |-> <<"mismatched sketch", i>>]]

FailingCalls == {k \in DOMAIN AggCalls(eOp, eFiles) : AggCalls(eOp, eFiles)[k].fails}

FirstFailingCall == CHOOSE k \in FailingCalls : \A j \in FailingCalls : k <= j

\* C30: when a call on a file, or a sketch Merge, fails, the operation
\* returns the error of the first call that failed and neither an iterator
\* nor sketches: a failure never becomes an empty or partial success.
C30_FailurePropagates ==
    (eRet.called /\ FailingCalls # {}) =>
        /\ eRet.err = AggCalls(eOp, eFiles)[FirstFailingCall].err
        /\ eRet.err # NilError
        /\ eRet.nil

\* The second file's tombstone sketch could not be merged after the first
\* file's sketches were, and that error came back without sketches.
C30_Witness ==
    /\ eRet.called
    /\ eOp = "MetricsSketches"
    /\ Len(eFiles) = 2
    /\ eFiles[1].sk = SketchPair(Plus(<<1, 0>>), Plus(<<0, 1>>))
    /\ ~eFiles[2].sk.err
    /\ eFiles[2].sk.s.kind = "hll"
    /\ eFiles[2].sk.t.kind = "other"
    /\ eRet.err = <<"mismatched sketch", 2>>
    /\ eRet.nil

-----------------------------------------------------------------------------
(* Claims about TagValueSeriesIDIterator on a FileSet and on the FileSet   *)
(* PrependLogFile derives from it.                                         *)

\* A log file that holds no series for (name, key, value), either because
\* it has no such value or because the value's set is empty, and that has
\* no tombstones.
EmptyLogFiles == {[tv |-> NilSet, tomb |-> {}], [tv |-> SomeSet({}), tomb |-> {}]}

\* The files of the FileSet that PrependLogFile(f) returns for files.
PrependedFiles(files, f) ==
    FileSet_PrependLogFile(NewFileSet("levels", "sfile", files), f).ret.files

\* C31: prepending a log file that contributes no series and tombstones
\* none leaves the result of TagValueSeriesIDIterator as it is: the call on
\* the new FileSet returns the set the call on the receiver returns.
C31_EmptyLogFileIsNeutral ==
    tvItr.state = "returned" =>
        \A f \in EmptyLogFiles :
            TagValueSeriesIDIterator(PrependedFiles(tvFiles, f)) = tvItr.ids

-----------------------------------------------------------------------------
(* Claims about the tag keys MetricTagKeysByExpr returns and the merged    *)
(* view's tombstones.                                                      *)

\* A comparison of _tagKey, whatever the operator and the right side.
IsTagKeyFilter(e) ==
    /\ e.type = "BinaryExpr"
    /\ IsLeafOp(e.op)
    /\ e.args[1] = VarRef("_tagKey")

\* C32: for a nil expression and for every _tagKey comparison, every key
\* MetricTagKeysByExpr returns exists in the merged view: HasTagKey is true
\* for it, so no key is returned whose newest holding file marks it deleted.
C32_NoTombstonedKeyReturned ==
    (xRet.called /\ (xExpr = NilExpr \/ IsTagKeyFilter(xExpr)) /\ xRet.err = NilError) =>
        \A k \in xRet.keys : FileSet_HasTagKey(xFiles, k)

-----------------------------------------------------------------------------
(* Claims that relate the point lookups to the merged iteration. The files *)
(* of the merge model hold, for each name, the element their iterator      *)
(* yields for it, so File.Metric(name) and the file's MetricIterator agree. *)

\* The names the adapter has yielded.
Yielded == {mOut[i] : i \in 1..Len(mOut)}

\* The adapter has nothing more to yield: it is nil, or it returned nil.
AdapterEnded == mItr.nil \/ (mRet.what = "key" /\ mRet.key.nil)

\* C33: every name the tombstone-unaware adapter over MetricIterator()
\* yields has a non-nil FileSet.Metric, and once the adapter has ended every
\* name with a non-nil FileSet.Metric has been yielded.
C33_LookupAgreesWithIteration ==
    (mKind = "metric" /\ mVia = "adapter") =>
        /\ \A name \in Yielded : ~FileSet_Metric(mFiles, name).nil
        /\ AdapterEnded =>
               \A name \in Keys : ~FileSet_Metric(mFiles, name).nil => name \in Yielded

\* The adapter ended having yielded a name, and not the name that the newer
\* file marks deleted and the older file holds undeleted.
C33_Witness ==
    /\ mKind = "metric" /\ mVia = "adapter"
    /\ mRet.what = "key" /\ mRet.key.nil
    /\ Len(mFiles) = 2
    /\ Yielded # {}
    /\ \E name \in Keys :
          /\ File_Metric(mFiles[1], 1, name).deleted
          /\ ~File_Metric(mFiles[2], 2, name).nil
          /\ ~File_Metric(mFiles[2], 2, name).deleted
          /\ name \notin Yielded
          /\ FileSet_Metric(mFiles, name).nil

-----------------------------------------------------------------------------
(* Claims that relate FileSet.TagValueIterator(name, key) to the           *)
(* TagValueIterator() of the merged tag key element for key. The files     *)
(* that hold key are the constituents of the merged element, newest first; *)
(* each constituent's TagValueIterator() is its file's                     *)
(* TagValueIterator(name, key).                                            *)

\* The files holding key, as FileSet.TagValueIterator sees them.
KeyFiles(p) == [i \in 1..Len(p) |-> [nil |-> FALSE, elems |-> p[i].values]]

\* Everything a merged tag value iterator yields, n being the outcome of
\* its first Next().
RECURSIVE DrainFrom(_)
DrainFrom(n) ==
    IF n.nil THEN <<>> ELSE <<n.ret>> \o DrainFrom(TagValueMergeNext(n.itr))

Drain(itr) == IF itr.nil THEN <<>> ELSE DrainFrom(TagValueMergeNext(itr))

\* The (value, deleted) pairs of a sequence of groups.
ValueGroups(hist) ==
    [k \in 1..Len(hist) |->
        <<TagValueMergeElem_Value(hist[k]), TagValueMergeElem_Deleted(hist[k])>>]

\* C34: the merged tag key element's TagValueIterator() yields the same
\* sequence of (value, deleted) groups as FileSet.TagValueIterator(name, key)
\* on the files the element was merged from.
C34_ValueEnumerationsAgree ==
    pRet = "nil" =>
        ValueGroups(pHist) = ValueGroups(Drain(FileSet_TagValueIterator(KeyFiles(pElem))))

\* The constituents from the newest to the first one marked deleted.
UpToTombstone(p) == SubSeq(p, 1, FirstTombstone(p))

\* C34 (amended): the merged tag key element's TagValueIterator() yields
\* the sequence of (value, deleted) groups that FileSet.TagValueIterator
\* yields on the files from the newest down to and including the first one
\* whose key element is marked deleted; when no file but the oldest holder
\* marks the key deleted, that is the sequence FileSet.TagValueIterator
\* yields on all the files.
C34_AgreeUpToFirstTombstone ==
    pRet = "nil" =>
        /\ ValueGroups(pHist) =
               ValueGroups(Drain(FileSet_TagValueIterator(KeyFiles(UpToTombstone(pElem)))))
        /\ (\A i \in 1..(Len(pElem) - 1) : ~pElem[i].deleted) =>
               C34_ValueEnumerationsAgree

\* Both enumerations ended on two files that hold the key undeleted and
\* share a value which only the newer file marks deleted.
C34_Witness ==
    /\ pRet = "nil"
    /\ Len(pElem) = 2
    /\ ~pElem[1].deleted /\ ~pElem[2].deleted
    /\ Len(pHist) = 2
    /\ \E k \in 1..Len(pHist) :
          /\ Len(pHist[k]) = 2
          /\ TagValueMergeElem_Deleted(pHist[k])
          /\ \E j \in 1..Len(pElem[2].values) :
                /\ pElem[2].values[j].key = TagValueMergeElem_Value(pHist[k]).b
                /\ ~pElem[2].values[j].deleted

-----------------------------------------------------------------------------
(* Claims about what a derived FileSet carries over.                       *)

\* FileSet.SeriesFile
FileSet_SeriesFile(fs) == fs.sfile

\* C35: every FileSet derived by PrependLogFile or MustReplace has the
\* compaction levels and the series file of the FileSet it was derived
\* from, so all FileSets of the lineage return the same SeriesFile().
C35_LineageSharesLevelsAndSeriesFile ==
    \A i \in 1..Len(fsHeap) :
        /\ fsHeap[i].levels = fsHeap[1].levels
        /\ FileSet_SeriesFile(fsHeap[i]) = FileSet_SeriesFile(fsHeap[1])

-----------------------------------------------------------------------------
(* newFileSetSeriesIDIterator and the wrapper it returns, used by one      *)
(* caller that has retained the FileSet for it.                            *)

\* Files of the retained FileSet.
MaxWrapFiles == 2

\* Calls made on the wrapper.
MaxWrapCalls == 4

\* The inner iterator: nil, a SeriesIDIterator that is no
\* SeriesIDSetIterator, or a SeriesIDSetIterator.
InnerIterators == {"nil", "plain", "set"}

NoWrapper == [kind |-> "none", done |-> 0]

\* Mutant: a nil inner iterator gives nil without releasing the FileSet.
newFileSetSeriesIDIteratorLeak(refs, itr) ==
    IF itr = "nil"
    THEN [refs |-> refs, released |-> FALSE, ret |-> [kind |-> "nil", done |-> 0]]
    ELSE IF itr = "set"
    THEN [refs |-> refs, released |-> FALSE, ret |-> [kind |-> "seriesIDSet", done |-> 0]]
    ELSE [refs |-> refs, released |-> FALSE, ret |-> [kind |-> "seriesID", done |-> 0]]

\* newFileSetSeriesIDIterator(fs, itr): the files' counts afterwards,
\* whether fs.Release() ran, and what is returned.
newFileSetSeriesIDIterator(refs, itr) ==
    IF itr = "nil"
    THEN [refs |-> FileSet_Release(refs), released |-> TRUE,
          ret |-> [kind |-> "nil", done |-> 0]]
    ELSE IF itr = "set"
    THEN [refs |-> refs, released |-> FALSE, ret |-> [kind |-> "seriesIDSet", done |-> 0]]
    ELSE [refs |-> refs, released |-> FALSE, ret |-> [kind |-> "seriesID", done |-> 0]]

IdleWrap ==
    /\ wInner = "nil"
    /\ wItr = NoWrapper
    /\ wRefs = <<>>
    /\ wCalls = <<>>
    /\ wReleasedAt = <<>>

WrapperBuilt == wItr.kind \in {"seriesID", "seriesIDSet"}

CallNewFileSetSeriesIDIterator ==
    /\ wCalls = <<>>
    /\ LET n == newFileSetSeriesIDIterator(wRefs, wInner)
       IN  /\ wRefs' = n.refs
           /\ wItr' = n.ret
           /\ wReleasedAt' = IF n.released THEN <<1>> ELSE <<>>
    /\ wCalls' = <<"new">>
    /\ UNCHANGED wInner
    /\ UNCHANGED <<tvVars, mVars, fsVars, cVars, rVars, sVars, nVars, kVars, xVars, lVars, gVars, pVars, eVars, zVars>>

\* fileSetSeriesIDIterator.Next / fileSetSeriesIDSetIterator.Next: the
\* inner iterator's Next.
WrapperNext ==
    /\ WrapperBuilt
    /\ Len(wCalls) <= MaxWrapCalls
    /\ wCalls' = Append(wCalls, "Next")
    /\ UNCHANGED <<wInner, wItr, wRefs, wReleasedAt>>
    /\ UNCHANGED <<tvVars, mVars, fsVars, cVars, rVars, sVars, nVars, kVars, xVars, lVars, gVars, pVars, eVars, zVars>>

\* Close by a single caller: once.Do runs fs.Release() when done is 0 and
\* sets done; the inner iterator is closed every time.
WrapperClose ==
    /\ WrapperBuilt
    /\ Len(wCalls) <= MaxWrapCalls
    /\ wCalls' = Append(wCalls, "Close")
    /\ IF MustRelease(wItr.kind, wItr.done)
       THEN /\ wRefs' = FileSet_Release(wRefs)
            /\ wReleasedAt' = Append(wReleasedAt, Len(wCalls) + 1)
       ELSE UNCHANGED <<wRefs, wReleasedAt>>
    /\ wItr' = [wItr EXCEPT !.done = 1]
    /\ UNCHANGED wInner
    /\ UNCHANGED <<tvVars, mVars, fsVars, cVars, rVars, sVars, nVars, kVars, xVars, lVars, gVars, pVars, eVars, zVars>>

\* fileSetSeriesIDSetIterator.SeriesIDSet: only that wrapper has it.
WrapperSeriesIDSet ==
    /\ wItr.kind = "seriesIDSet"
    /\ Len(wCalls) <= MaxWrapCalls
    /\ wCalls' = Append(wCalls, "SeriesIDSet")
    /\ UNCHANGED <<wInner, wItr, wRefs, wReleasedAt>>
    /\ UNCHANGED <<tvVars, mVars, fsVars, cVars, rVars, sVars, nVars, kVars, xVars, lVars, gVars, pVars, eVars, zVars>>

-----------------------------------------------------------------------------
(* Claims about newFileSetSeriesIDIterator.                                *)

\* The position of the first Close among the calls, 0 if there is none.
FirstClose ==
    IF \E i \in 1..Len(wCalls) : wCalls[i] = "Close"
    THEN CHOOSE i \in 1..Len(wCalls) :
             wCalls[i] = "Close" /\ \A j \in 1..(i - 1) : wCalls[j] # "Close"
    ELSE 0

\* C36: with a nil inner iterator the FileSet is released by the
\* constructor, which returns nil; otherwise nothing is released before the
\* first Close, the first Close releases it, and nothing releases it again,
\* so every file has lost at most one reference and exactly one once nil
\* was returned or a Close was made; the wrapper of a set-backed iterator
\* is the one that has SeriesIDSet().
C36_ReleasedExactlyOnce ==
    wCalls # <<>> =>
        /\ wInner = "nil" => (wItr.kind = "nil" /\ wReleasedAt = <<1>>)
        /\ wInner # "nil" =>
               /\ WrapperBuilt
               /\ wReleasedAt = IF FirstClose = 0 THEN <<>> ELSE <<FirstClose>>
        /\ \A i \in 1..Len(wRefs) : wRefs[i] = StartRef - Len(wReleasedAt)
        /\ (wItr.kind = "seriesIDSet") = (wInner = "set")
        /\ (\E i \in 1..Len(wCalls) : wCalls[i] = "SeriesIDSet") => wInner = "set"

\* A set-backed wrapper was read, asked for its set and closed twice.
C36_Witness ==
    /\ wInner = "set"
    /\ wCalls = <<"new", "Next", "SeriesIDSet", "Close", "Close">>
    /\ wReleasedAt = <<4>>
    /\ Len(wRefs) = 2

-----------------------------------------------------------------------------
(* What NewFileSet, PrependLogFile and MustReplace do to the Files: the    *)
(* caller creates the Files (with whatever count) and hands them in.       *)

\* Files that exist before the first FileSet is built.
MaxFrameFiles == 3

\* Most FileSet objects allocated in one run.
MaxFrameSets == 2

\* The Files as the calls leave them: [refs, closed]. None of the three
\* function bodies calls Retain, Release or Close on a File.
NewFileSet_Files(refs, closed, files) == [refs |-> refs, closed |-> closed]

FileSet_PrependLogFile_Files(refs, closed, fs, f) == [refs |-> refs, closed |-> closed]

\* Mutant: the replaced files are released, and closed when no reference is
\* left.
FileSet_MustReplace_FilesReleased(refs, closed, fs, oldFiles, newFile) ==
    LET old  == {oldFiles[j] : j \in 1..Len(oldFiles)} \cap DOMAIN refs
        left == [k \in DOMAIN refs |-> IF k \in old THEN File_Release(refs[k]) ELSE refs[k]]
    IN  [refs |-> left, closed |-> closed \cup {k \in old : left[k] = 0}]

FileSet_MustReplace_Files(refs, closed, fs, oldFiles, newFile) ==
    [refs |-> refs, closed |-> closed]

NoFrameCall == [op |-> "none", refs |-> <<>>, closed |-> {}, panic |-> NoPanic]

IdleFrame ==
    /\ zHeap = <<>>
    /\ zRefs = <<>>
    /\ zClosed = {}
    /\ zLast = NoFrameCall

\* The index-open path builds the first FileSet from some of the Files.
FrameNewFileSet ==
    /\ zHeap = <<>>
    /\ \E files \in SeqsUpTo(DOMAIN zRefs, MaxFrameFiles) :
          /\ \A i, j \in 1..Len(files) : files[i] = files[j] => i = j
          /\ zHeap' = <<NewFileSet("levels", "sfile", files)>>
          /\ LET after == NewFileSet_Files(zRefs, zClosed, files)
             IN  /\ zRefs' = after.refs
                 /\ zClosed' = after.closed
    /\ zLast' = [op |-> "NewFileSet", refs |-> zRefs, closed |-> zClosed,
                 panic |-> NoPanic]
    /\ UNCHANGED <<tvVars, mVars, fsVars, cVars, rVars, sVars, nVars, kVars, xVars, lVars, gVars, pVars, eVars, wVars>>

\* A new log file, which the index holds one reference to, is prepended
\* to FileSet r.
FramePrependLogFile ==
    /\ zHeap # <<>>
    /\ Len(zHeap) < MaxFrameSets
    /\ zLast.panic = NoPanic
    /\ \E r \in 1..Len(zHeap) :
          LET f       == Len(zRefs) + 1
              created == Append(zRefs, 1)
              res     == FileSet_PrependLogFile(zHeap[r], f)
              after   == FileSet_PrependLogFile_Files(created, zClosed, zHeap[r], f)
          IN  /\ zHeap' = Append([zHeap EXCEPT ![r] = res.recv], res.ret)
              /\ zRefs' = after.refs
              /\ zClosed' = after.closed
              /\ zLast' = [op |-> "PrependLogFile", refs |-> created,
                           closed |-> zClosed, panic |-> NoPanic]
    /\ UNCHANGED <<tvVars, mVars, fsVars, cVars, rVars, sVars, nVars, kVars, xVars, lVars, gVars, pVars, eVars, wVars>>

\* A new compacted file, which the index holds one reference to, replaces
\* oldFiles in FileSet r; a panic ends the process.
FrameMustReplace ==
    /\ zHeap # <<>>
    /\ Len(zHeap) < MaxFrameSets
    /\ zLast.panic = NoPanic
    /\ \E r \in 1..Len(zHeap) : \E oldFiles \in SeqsUpTo(DOMAIN zRefs, MaxOldFiles) :
          LET newFile == Len(zRefs) + 1
              created == Append(zRefs, 1)
              res     == FileSet_MustReplace(zHeap[r], oldFiles, newFile)
              after   == FileSet_MustReplace_Files(created, zClosed, zHeap[r],
                                                   oldFiles, newFile)
          IN  /\ zHeap' = IF res.panic = NoPanic
                          THEN Append([zHeap EXCEPT ![r] = res.recv], res.ret)
                          ELSE [zHeap EXCEPT ![r] = res.recv]
              /\ zRefs' = IF res.panic = NoPanic THEN after.refs ELSE created
              /\ zClosed' = IF res.panic = NoPanic THEN after.closed ELSE zClosed
              /\ zLast' = [op |-> "MustReplace", refs |-> created,
                           closed |-> zClosed, panic |-> res.panic]
    /\ UNCHANGED <<tvVars, mVars, fsVars, cVars, rVars, sVars, nVars, kVars, xVars, lVars, gVars, pVars, eVars, wVars>>

-----------------------------------------------------------------------------
(* Claims about the Files of a FileSet that is built or derived.           *)

\* C37: after NewFileSet, PrependLogFile or MustReplace every File has the
\* reference count it had before the call, the prepended file, the new
\* compacted file and the replaced files included, and no File has been
\* closed by the call.
C37_FilesUntouched ==
    zLast.op # "none" =>
        /\ zRefs = zLast.refs
        /\ zClosed = zLast.closed

\* A run of two files was replaced in a FileSet of three files: the
\* replaced files, the file left in place and the new file have the counts
\* they had.
C37_Witness ==
    /\ zLast.op = "MustReplace"
    /\ zLast.panic = NoPanic
    /\ Len(zHeap) = 2
    /\ Len(zHeap[1].files) = 3
    /\ Len(zHeap[2].files) = 2
    /\ \E i \in 1..2 :
          /\ zHeap[1].files[i] \notin {zHeap[2].files[k] : k \in 1..2}
          /\ zHeap[1].files[i + 1] \notin {zHeap[2].files[k] : k \in 1..2}
          /\ zRefs[zHeap[1].files[i]] = zHeap[1].files[i]
          /\ zRefs[zHeap[1].files[i + 1]] = zHeap[1].files[i + 1]
    /\ zRefs[4] = 1

-----------------------------------------------------------------------------
(* Claims about the rows seriesCursor emits for each metric it pulls.      *)

\* The series keys the store has for the IDs the predicate iterator of a
\* metric yields; none when the metric resolves to an error or to nil.
StoredKeys(name) ==
    IF kIndex[name].err \/ kIndex[name].nil THEN {}
    ELSE {SeriesFile_SeriesKey(kIndex[name].ids[i]) : i \in 1..Len(kIndex[name].ids)}
         \ {SeriesFile_SeriesKey(0)}

\* The series key a row was parsed from.
KeyOfRow(row) == [empty |-> FALSE, name |-> row.name, tags |-> row.tags]

\* The predicate iterator of the b-th metric pulled ran to its sentinel.
ReadToSentinel(b) ==
    /\ ~kIndex[kBatches[b].name].err
    /\ ~kIndex[kBatches[b].name].nil
    /\ ~kIndex[kBatches[b].name].fail

\* The cursor has left the b-th batch: it pulled another metric, or it
\* returned (nil, nil).
BatchLeft(b) ==
    \/ b < Len(kBatches)
    \/ \E i \in 1..Len(kOut) : kOut[i].row.nil /\ kOut[i].err = NoError

\* C38: the rows emitted while a metric is the one last pulled are rows of
\* that metric's series whose key in the store is non-empty, each at most
\* once; when the predicate iterator ran to its sentinel, all of them have
\* been emitted, once each, by the time the cursor leaves the batch; and
\* 0 <= ofs <= len(keys) after every Next.
C38_OneRowPerStoredSeries ==
    /\ kCur.ofs \in 0..Len(kCur.keys)
    /\ \A b \in 1..Len(kBatches) :
          LET rows == RowsOfBatch(b)
          IN  /\ \A i \in 1..Len(rows) : KeyOfRow(rows[i]) \in StoredKeys(kBatches[b].name)
              /\ \A i, j \in 1..Len(rows) : rows[i] = rows[j] => i = j
              /\ (ReadToSentinel(b) /\ BatchLeft(b)) =>
                     Len(rows) = Cardinality(StoredKeys(kBatches[b].name))
    /\ \A i \in 1..Len(kOut) : ~kOut[i].row.nil => kOut[i].batch >= 1

\* Two metrics were pulled: the first has two stored series and one whose
\* key is empty, the second resolves to a nil iterator; both rows of the
\* first were emitted and the cursor reached its end.
C38_Witness ==
    /\ Len(kBatches) = 2
    /\ kBatches[1].name = <<1>>
    /\ kIndex[<<1>>].ids = <<1, 2, 4>>
    /\ ReadToSentinel(1)
    /\ kIndex[<<2>>].nil
    /\ Len(RowsOfBatch(1)) = 2
    /\ RowsOfBatch(2) = <<>>
    /\ EndedTwice

\* The series-ID iterator of the b-th metric pulled failed part-way.
FailedPartWay(b) == kBatches[b].err = "series id iterator error"

\* C39: when the series-ID iterator of a metric fails after some IDs were
\* read, Next returns that error, and no Next call emits a row of that
\* metric's partially read batch.
C39_NoRowFromPartialBatch ==
    \A b \in 1..Len(kBatches) :
        FailedPartWay(b) =>
            /\ \E i \in 1..Len(kOut) :
                  /\ kOut[i].batch = b
                  /\ kOut[i].row.nil
                  /\ kOut[i].err = "series id iterator error"
            /\ RowsOfBatch(b) = <<>>

-----------------------------------------------------------------------------
(* Claims about AND/OR operands of MetricTagKeysByExpr that give no key    *)
(* set.                                                                    *)

\* r is no key set: nil, without error.
IsNoKeySet(r) == r.nil /\ r.err = NilError

\* C40: an AND/OR node with one operand that evaluates to no key set (nil,
\* no error) returns the other operand's key set unchanged, for AND as for
\* OR, and returns no key set (nil, no error) when both operands do.
C40_NilOperandIsNeutral ==
    (xRet.called /\ xExpr.type = "BinaryExpr" /\ xExpr.op \in {"AND", "OR"}) =>
        LET l   == FileSet_MetricTagKeysByExpr(xFiles, xExpr.args[1])
            r   == FileSet_MetricTagKeysByExpr(xFiles, xExpr.args[2])
            ret == [nil |-> xRet.nil, keys |-> xRet.keys, err |-> xRet.err]
        IN  /\ (IsNoKeySet(l) /\ IsKeySet(r)) => ret = r
            /\ (IsKeySet(l) /\ IsNoKeySet(r)) => ret = l
            /\ (IsNoKeySet(l) /\ IsNoKeySet(r)) => ret = NilKeys(NilError)

\* `host = v AND _tagKey != w` returned the non-empty key set of its right
\* operand.
C40_Witness ==
    /\ xRet.called
    /\ xExpr.type = "BinaryExpr"
    /\ xExpr.op = "AND"
    /\ xExpr.args[1] = BinaryExpr("EQ", VarRef("host"), StringLiteral(<<1>>))
    /\ IsTagKeyLeaf(xExpr.args[2], "NEQ")
    /\ ~xRet.nil
    /\ xRet.keys # {}
    /\ xRet.keys = FileSet_MetricTagKeysByExpr(xFiles, xExpr.args[2]).keys

-----------------------------------------------------------------------------
(* The specifications.                                                     *)

InitTagValue ==
    /\ tvFiles \in SeqsUpTo(TVFile, MaxTVFiles)
    /\ tvItr = [state |-> "none", ids |-> {}]
    /\ IdleMerge
    /\ IdleFileSet
    /\ IdleClose
    /\ IdleRef
    /\ IdleSnap
    /\ IdleNewCursor
    /\ IdleCursor
    /\ IdleTagKeys
    /\ IdleLookup
    /\ IdleLevel
    /\ IdleKeyElem
    /\ IdleAggregate
    /\ IdleWrap
    /\ IdleFrame

NextTagValue == CallTagValueSeriesIDIterator

SpecTagValue == InitTagValue /\ [][NextTagValue]_vars

InitMerge ==
    /\ mFiles \in SeqsUpTo(MergeFile, MaxMergeFiles)
    /\ mKind \in MergeKinds
    /\ mVia = "none"
    /\ mItr = NilItr
    /\ mHist = <<>>
    /\ mOut = <<>>
    /\ mRet = NoRet
    /\ IdleTagValue
    /\ IdleFileSet
    /\ IdleClose
    /\ IdleRef
    /\ IdleSnap
    /\ IdleNewCursor
    /\ IdleCursor
    /\ IdleTagKeys
    /\ IdleLookup
    /\ IdleLevel
    /\ IdleKeyElem
    /\ IdleAggregate
    /\ IdleWrap
    /\ IdleFrame

NextMerge ==
    \/ OpenMerged
    \/ OpenAdapter
    \/ MetricIteratorNext
    \/ TagKeyIteratorNext
    \/ TagValueIteratorNext
    \/ MetricAdapterCall
    \/ TagKeyAdapterCall
    \/ TagValueAdapterCall

SpecMerge == InitMerge /\ [][NextMerge]_vars

\* NewFileSet(levels, sfile, files) with up to MaxInitFiles distinct files.
InitFileSet ==
    /\ \E n \in 0..MaxInitFiles :
          /\ fsHeap = <<NewFileSet("levels", "sfile", [k \in 1..n |-> k])>>
          /\ fsNextFile = n + 1
    /\ fsLast = NoCall
    /\ IdleTagValue
    /\ IdleMerge
    /\ IdleClose
    /\ IdleRef
    /\ IdleSnap
    /\ IdleNewCursor
    /\ IdleCursor
    /\ IdleTagKeys
    /\ IdleLookup
    /\ IdleLevel
    /\ IdleKeyElem
    /\ IdleAggregate
    /\ IdleWrap
    /\ IdleFrame

NextFileSet == CallPrependLogFile \/ CallMustReplace

SpecFileSet == InitFileSet /\ [][NextFileSet]_vars

\* A wrapper of any of the five kinds, just built around a retained FileSet.
InitClose ==
    /\ cKind \in WrapperKinds
    /\ cOnce = [done |-> 0, m |-> 0]
    /\ cPc = [t \in Closers |-> "idle"]
    /\ cCalls = [t \in Closers |-> 0]
    /\ \E n \in 1..MaxCloseFiles : cRefs = [i \in 1..n |-> StartRef]
    /\ cReleases = 0
    /\ cInner = 0
    /\ IdleTagValue
    /\ IdleMerge
    /\ IdleFileSet
    /\ IdleRef
    /\ IdleSnap
    /\ IdleNewCursor
    /\ IdleCursor
    /\ IdleTagKeys
    /\ IdleLookup
    /\ IdleLevel
    /\ IdleKeyElem
    /\ IdleAggregate
    /\ IdleWrap
    /\ IdleFrame

NextClose ==
    \E t \in DOMAIN cPc :
        \/ CloseCall(t)
        \/ OnceLoad(t)
        \/ OnceLock(t)
        \/ OnceRun(t)
        \/ OnceStore(t)
        \/ OnceUnlock(t)
        \/ InnerClose(t)

SpecClose == InitClose /\ [][NextClose]_vars

\* An index with its first FileSet, holding one reference to every file,
\* and readers that have not started.
InitRef ==
    /\ \E n \in 1..MaxRefFiles :
          /\ rHeap = <<NewFileSet("levels", "sfile", [k \in 1..n |-> k])>>
          /\ rRefs = [k \in 1..n |-> 1]
          /\ rBase = [k \in 1..n |-> 1]
    /\ rActive = 1
    /\ rPending = <<>>
    /\ rReaders = [r \in Readers |-> [pc |-> "idle", fs |-> 0, reads |-> 0]]
    /\ rLog = <<NoLog>>
    /\ IdleTagValue
    /\ IdleMerge
    /\ IdleFileSet
    /\ IdleClose
    /\ IdleSnap
    /\ IdleNewCursor
    /\ IdleCursor
    /\ IdleTagKeys
    /\ IdleLookup
    /\ IdleLevel
    /\ IdleKeyElem
    /\ IdleAggregate
    /\ IdleWrap
    /\ IdleFrame

NextRef ==
    \/ \E r \in DOMAIN rReaders : ReaderRetain(r) \/ ReaderRelease(r)
    \/ Compact
    \/ ReleaseSuperseded

SpecRef == InitRef /\ [][NextRef]_vars

\* A first FileSet of one-entry log files, not yet read.
InitSnap ==
    /\ \E n \in 1..MaxSnapFiles :
          /\ sHeap = <<NewFileSet("levels", "sfile", [k \in 1..n |-> k])>>
          /\ sContent \in [1..n -> SnapFile]
    /\ sSnap = 0
    /\ sBase = <<>>
    /\ sItr = NilItr
    /\ sHist = <<>>
    /\ IdleTagValue
    /\ IdleMerge
    /\ IdleFileSet
    /\ IdleClose
    /\ IdleRef
    /\ IdleNewCursor
    /\ IdleCursor
    /\ IdleTagKeys
    /\ IdleLookup
    /\ IdleLevel
    /\ IdleKeyElem
    /\ IdleAggregate
    /\ IdleWrap
    /\ IdleFrame

NextSnap ==
    \/ TakeSnapshot
    \/ ReadOpen
    \/ ReadNext
    \/ SnapPrependLogFile
    \/ SnapMustReplace

SpecSnap == InitSnap /\ [][NextSnap]_vars

\* A call of newSeriesCursor about to be made.
InitNewCursor ==
    /\ nArgs \in [cond : CursorConds, metrics : {"nil", "given"},
                  indexErr : {NoError, "index closed"}]
    /\ nRet = NotCalled
    /\ IdleTagValue
    /\ IdleMerge
    /\ IdleFileSet
    /\ IdleClose
    /\ IdleRef
    /\ IdleSnap
    /\ IdleCursor
    /\ IdleTagKeys
    /\ IdleLookup
    /\ IdleLevel
    /\ IdleKeyElem
    /\ IdleAggregate
    /\ IdleWrap
    /\ IdleFrame

NextNewCursor == CallNewSeriesCursor

SpecNewCursor == InitNewCursor /\ [][NextNewCursor]_vars

\* A cursor just built by newSeriesCursor over some index set.
InitCursor ==
    /\ kIndex \in {f \in [CurNames -> UNION {Resolutions(n) : n \in CurNames}] :
                      \A n \in CurNames : f[n] \in Resolutions(n)}
    /\ kMitr \in {GivenMitr(list) : list \in SeqsUpTo(GivenItems, MaxGiven)} \cup
                 {NewTSDBMetricIteratorAdapter(files) :
                      files \in SeqsUpTo(SnapFile, MaxCurFiles)}
    /\ kCur = NewCursor
    /\ kOut = <<>>
    /\ kBatches = <<>>
    /\ kCloses = <<>>
    /\ kPanic = NoPanic
    /\ IdleTagValue
    /\ IdleMerge
    /\ IdleFileSet
    /\ IdleClose
    /\ IdleRef
    /\ IdleSnap
    /\ IdleNewCursor
    /\ IdleTagKeys
    /\ IdleLookup
    /\ IdleLevel
    /\ IdleKeyElem
    /\ IdleAggregate
    /\ IdleWrap
    /\ IdleFrame

NextCursor == CursorNext \/ CursorClose

SpecCursor == InitCursor /\ [][NextCursor]_vars

\* MetricTagKeysByExpr called once on some file list with some expression.
InitTagKeys ==
    /\ xFiles \in SeqsUpTo(ExprFile, MaxExprFiles)
    /\ xExpr \in ExprInputs
    /\ xRet = NotEvaluated
    /\ IdleTagValue
    /\ IdleMerge
    /\ IdleFileSet
    /\ IdleClose
    /\ IdleRef
    /\ IdleSnap
    /\ IdleNewCursor
    /\ IdleCursor
    /\ IdleLookup
    /\ IdleLevel
    /\ IdleKeyElem
    /\ IdleAggregate
    /\ IdleWrap
    /\ IdleFrame

NextTagKeys == CallMetricTagKeysByExpr

SpecTagKeys == InitTagKeys /\ [][NextTagKeys]_vars

\* Lookups on some file list.
InitLookup ==
    /\ lFiles \in SeqsUpTo(LookupFile, MaxLookupFiles)
    /\ lRet = NoLookup
    /\ IdleTagValue
    /\ IdleMerge
    /\ IdleFileSet
    /\ IdleClose
    /\ IdleRef
    /\ IdleSnap
    /\ IdleNewCursor
    /\ IdleCursor
    /\ IdleTagKeys
    /\ IdleLevel
    /\ IdleKeyElem
    /\ IdleAggregate
    /\ IdleWrap
    /\ IdleFrame

NextLookup ==
    \E key \in SnapKeys : CallMetric(key) \/ CallHasTagKey(key) \/ CallHasTagValue(key)

SpecLookup == InitLookup /\ [][NextLookup]_vars

\* The scheduler and the compactor on some FileSet.
InitLevel ==
    /\ gLevels \in SeqsUpTo(0..MaxLevel, MaxLevelFiles)
    /\ gRet = NoLevelCall
    /\ IdleTagValue
    /\ IdleMerge
    /\ IdleFileSet
    /\ IdleClose
    /\ IdleRef
    /\ IdleSnap
    /\ IdleNewCursor
    /\ IdleCursor
    /\ IdleTagKeys
    /\ IdleLookup
    /\ IdleKeyElem
    /\ IdleAggregate
    /\ IdleWrap
    /\ IdleFrame

NextLevel == (\E level \in 0..MaxLevel : CallLastContiguous(level)) \/ CallMustReplaceRun

SpecLevel == InitLevel /\ [][NextLevel]_vars

\* A merged tag key element handed out by a tag key merge iterator.
InitKeyElem ==
    /\ pElem \in SeqsUpTo(TagKeyElems, MaxConstituents)
    /\ pItr = NilItr
    /\ pHist = <<>>
    /\ pRet = "none"
    /\ IdleTagValue
    /\ IdleMerge
    /\ IdleFileSet
    /\ IdleClose
    /\ IdleRef
    /\ IdleSnap
    /\ IdleNewCursor
    /\ IdleCursor
    /\ IdleTagKeys
    /\ IdleLookup
    /\ IdleLevel
    /\ IdleAggregate
    /\ IdleWrap
    /\ IdleFrame

NextKeyElem == CallTagValueIterator \/ KeyElemValueNext

SpecKeyElem == InitKeyElem /\ [][NextKeyElem]_vars

\* One of the aggregating operations on some file list.
InitAggregate ==
    /\ eOp \in AggOps
    /\ eFiles \in SeqsUpTo(AggFiles(eOp), MaxAggFiles)
    /\ eRet = NotAggregated
    /\ IdleTagValue
    /\ IdleMerge
    /\ IdleFileSet
    /\ IdleClose
    /\ IdleRef
    /\ IdleSnap
    /\ IdleNewCursor
    /\ IdleCursor
    /\ IdleTagKeys
    /\ IdleLookup
    /\ IdleLevel
    /\ IdleKeyElem
    /\ IdleWrap
    /\ IdleFrame

NextAggregate ==
    \/ CallTagKeySeriesIDIterator
    \/ CallTagValueSeriesIDIteratorErr
    \/ CallMetricsSketches
    \/ CallSeriesSketches

SpecAggregate == InitAggregate /\ [][NextAggregate]_vars

\* A caller that has retained a FileSet hands it to the constructor.
InitWrap ==
    /\ wInner \in InnerIterators
    /\ wItr = NoWrapper
    /\ wRefs \in {[i \in 1..n |-> StartRef] : n \in 0..MaxWrapFiles}
    /\ wCalls = <<>>
    /\ wReleasedAt = <<>>
    /\ IdleTagValue
    /\ IdleMerge
    /\ IdleFileSet
    /\ IdleClose
    /\ IdleRef
    /\ IdleSnap
    /\ IdleNewCursor
    /\ IdleCursor
    /\ IdleTagKeys
    /\ IdleLookup
    /\ IdleLevel
    /\ IdleKeyElem
    /\ IdleAggregate
    /\ IdleFrame

NextWrap ==
    \/ CallNewFileSetSeriesIDIterator
    \/ WrapperNext
    \/ WrapperClose
    \/ WrapperSeriesIDSet

SpecWrap == InitWrap /\ [][NextWrap]_vars

\* Some Files exist, each with a count of its own (file k has k
\* references), and no FileSet yet.
InitFrame ==
    /\ zHeap = <<>>
    /\ zRefs \in {[k \in 1..n |-> k] : n \in 0..MaxFrameFiles}
    /\ zClosed = {}
    /\ zLast = NoFrameCall
    /\ IdleTagValue
    /\ IdleMerge
    /\ IdleFileSet
    /\ IdleClose
    /\ IdleRef
    /\ IdleSnap
    /\ IdleNewCursor
    /\ IdleCursor
    /\ IdleTagKeys
    /\ IdleLookup
    /\ IdleLevel
    /\ IdleKeyElem
    /\ IdleAggregate
    /\ IdleWrap

NextFrame == FrameNewFileSet \/ FramePrependLogFile \/ FrameMustReplace

SpecFrame == InitFrame /\ [][NextFrame]_vars

Init == InitTagValue \/ InitMerge \/ InitFileSet \/ InitClose \/ InitRef \/ InitSnap
        \/ InitNewCursor \/ InitCursor \/ InitTagKeys \/ InitLookup
        \/ InitLevel \/ InitKeyElem \/ InitAggregate \/ InitWrap \/ InitFrame

Next == NextTagValue \/ NextMerge \/ NextFileSet \/ NextClose \/ NextRef \/ NextSnap
        \/ NextNewCursor \/ NextCursor \/ NextTagKeys \/ NextLookup
        \/ NextLevel \/ NextKeyElem \/ NextAggregate \/ NextWrap \/ NextFrame

Spec == Init /\ [][Next]_vars

====
